---- MODULE Spec2Model ----
(***************************************************************************)
(* Model of the annotation and detection pipeline of reddit-sentiment:     *)
(* the brand and model detectors (detection/brands.py, detection/models.py)*)
(* the channel detector and intent classifier, the lexicon and contextual  *)
(* scorers and SentimentPipeline.annotate (sentiment/pipeline.py), and of  *)
(* the callers' view of the components: the brand comparison               *)
(* (analysis/brand_comparison.py) and the API handlers (api/app.py); of    *)
(* the collectors that feed the pipeline (collection/collector.py,         *)
(* collection/public_collector.py); and of concurrent callers of annotate. *)
(*                                                                         *)
(* A text is a sequence of one-character strings; character offsets are    *)
(* 0-based as in Python, so the character at offset i is text[i + 1].      *)
(***************************************************************************)
EXTENDS Integers, Sequences, FiniteSets, TLC

VARIABLES
    catalog,          \* the model registry ModelDetector was built from
    dtext,            \* the text handed to the detector under test
    dop,              \* which detector operation ran last ("none" at start)
    dmentions,        \* the mentions returned by detect
    dnames,           \* the names returned by detect_brands / detect_models
    cfg,              \* SentimentConfig(): the weights and the context window
    use_transformer,  \* SentimentPipeline._use_transformer
    ml_installed,     \* whether torch and transformers can be imported
    ML_AVAILABLE,     \* transformer._ML_AVAILABLE: None, or the cached answer
    transformer,      \* SentimentPipeline._transformer: None, or the analyzer
    pc,               \* "idle", or "returned" once annotate has finished
    df,               \* the DataFrame passed to annotate
    out,              \* the DataFrame annotate returned
    calls,            \* the calls annotate made to the contextual scorer
    raised,           \* the exception that escaped annotate ("" for none)
    scorer,           \* a TransformerAnalyzer a caller built itself, or None
    op,               \* the component operation called last ("none" at start)
    arg,              \* the arguments of that call
    ret,              \* its outcome: the exception raised ("" for none), the value
    checkpoint,       \* checkpoint.json: None, or the subreddits it marks completed
    files,            \* the Parquet files saved so far: the records of each
    run,              \* the collect call in progress and its local variables
    threads,          \* the concurrent callers of annotate: position and locals
    heap              \* the TransformerAnalyzer objects the callers have built

dvars == <<catalog, dtext, dop, dmentions, dnames>>

pvars == <<cfg, use_transformer, ml_installed, ML_AVAILABLE, transformer,
           pc, df, out, calls, raised>>

cvars == <<scorer, op, arg, ret>>

vars == <<dvars, pvars, cvars, checkpoint, files, run, threads, heap>>

(***************************************************************************)
(* Bounds of the model.                                                    *)
(***************************************************************************)
MaxPieces == 3

MaxBatch == 2

MaxRuns == 3

MaxThreads == 2

(***************************************************************************)
(* Characters, case folding, word characters (Python re, str.split).       *)
(***************************************************************************)
UpperLetters ==
    <<"A","B","C","D","E","F","G","H","I","J","K","L","M",
      "N","O","P","Q","R","S","T","U","V","W","X","Y","Z">>

LowerLetters ==
    <<"a","b","c","d","e","f","g","h","i","j","k","l","m",
      "n","o","p","q","r","s","t","u","v","w","x","y","z">>

Digits == {"0","1","2","3","4","5","6","7","8","9"}

Range(s) == {s[i] : i \in DOMAIN s}

\* \w of Python's re: letters, digits and the underscore
WordChars == Range(UpperLetters) \cup Range(LowerLetters) \cup Digits \cup {"_"}

\* the case folding of the letters
LowerOf == [c \in Range(UpperLetters) |->
               LowerLetters[CHOOSE i \in DOMAIN UpperLetters : UpperLetters[i] = c]]

\* re.IGNORECASE: characters are compared after case folding
Lower(c) == IF c \in DOMAIN LowerOf THEN LowerOf[c] ELSE c

LowerSeq(s) == [i \in DOMAIN s |-> Lower(s[i])]

IsWordChar(c) == c \in WordChars

\* the characters str.split() and \s treat as whitespace
IsSpace(c) == c \in {" ", "\t", "\n"}

\* \b at offset p: exactly one of the two neighbouring characters is a word
\* character (a missing neighbour counts as a non-word character)
WordBoundary(text, p) ==
    LET before == p >= 1 /\ IsWordChar(text[p])
        after  == p < Len(text) /\ IsWordChar(text[p + 1])
    IN before # after

Min(S) == CHOOSE x \in S : \A y \in S : x <= y
Max(S) == CHOOSE x \in S : \A y \in S : x >= y

\* text[a:b] of Python (0-based, half-open, clamped)
Slice(s, a, b) ==
    LET lo == IF a < 0 THEN 0 ELSE a
        hi == IF b > Len(s) THEN Len(s) ELSE b
    IN IF hi <= lo THEN <<>> ELSE SubSeq(s, lo + 1, hi)

RECURSIVE Flatten(_)
Flatten(ss) == IF ss = <<>> THEN <<>> ELSE Head(ss) \o Flatten(Tail(ss))

\* the pattern \b + re.escape(alias) + \b, re.IGNORECASE, tried at offset i
MatchAt(text, alias, i) ==
    /\ i >= 0
    /\ i + Len(alias) <= Len(text)
    /\ \A k \in 1..Len(alias) : Lower(text[i + k]) = Lower(alias[k])
    /\ WordBoundary(text, i)
    /\ WordBoundary(text, i + Len(alias))

\* pat.finditer(text): the matches from left to right, each search resuming
\* at the end of the previous match
RECURSIVE FindIter(_, _, _)
FindIter(text, alias, from) ==
    LET cands == {i \in from..(Len(text) - Len(alias)) : MatchAt(text, alias, i)}
    IN IF cands = {} \/ alias = <<>> THEN <<>>
       ELSE LET i == Min(cands)
            IN <<[start |-> i, end |-> i + Len(alias)]>>
                   \o FindIter(text, alias, i + Len(alias))

\* str.split(): the maximal runs of non-whitespace characters
RECURSIVE SplitFrom(_, _)
SplitFrom(text, from) ==
    LET starts == {i \in from..Len(text) : ~IsSpace(text[i])}
    IN IF starts = {} THEN <<>>
       ELSE LET a == Min(starts)
                ends == {j \in a..Len(text) :
                            j = Len(text) \/ IsSpace(text[j + 1])}
                b == Min(ends)
            IN <<SubSeq(text, a, b)>> \o SplitFrom(text, b + 1)

Split(text) == SplitFrom(text, 1)

\* " ".join(words)
RECURSIVE Join(_)
Join(words) ==
    IF words = <<>> THEN <<>>
    ELSE IF Len(words) = 1 THEN words[1]
    ELSE words[1] \o <<" ">> \o Join(Tail(words))

\* the mentions left in the order the loops found them
SortByStart_Unsorted(ms) == ms

\* the aliases left in the order the registry lists them
SortByLenDesc_AsListed(as) == as

\* list.sort(key=lambda mn: mn.start): stable, ascending by start
RECURSIVE InsertByStart(_, _)
InsertByStart(sorted, m) ==
    IF sorted = <<>> THEN <<m>>
    ELSE IF Head(sorted).start <= m.start
         THEN <<Head(sorted)>> \o InsertByStart(Tail(sorted), m)
         ELSE <<m>> \o sorted

RECURSIVE SortByStart(_)
SortByStart(ms) ==
    IF ms = <<>> THEN <<>>
    ELSE InsertByStart(SortByStart(SubSeq(ms, 1, Len(ms) - 1)), ms[Len(ms)])

\* sorted(aliases, key=len, reverse=True): stable, longest first
RECURSIVE InsertByLenDesc(_, _)
InsertByLenDesc(sorted, a) ==
    IF sorted = <<>> THEN <<a>>
    ELSE IF Len(Head(sorted)) >= Len(a)
         THEN <<Head(sorted)>> \o InsertByLenDesc(Tail(sorted), a)
         ELSE <<a>> \o sorted

RECURSIVE SortByLenDesc(_)
SortByLenDesc(as) ==
    IF as = <<>> THEN <<>>
    ELSE InsertByLenDesc(SortByLenDesc(SubSeq(as, 1, Len(as) - 1)), as[Len(as)])

\* the first occurrence of every element, in order (the `seen` loops)
RECURSIVE Dedup(_)
Dedup(s) ==
    IF s = <<>> THEN <<>>
    ELSE LET front == Dedup(SubSeq(s, 1, Len(s) - 1))
             x == s[Len(s)]
         IN IF x \in Range(front) THEN front ELSE Append(front, x)

(***************************************************************************)
(* The alias registries.  The shipped tables are large; the model keeps an *)
(* excerpt of each, with the entries and the aliases in the order of the   *)
(* source.  "deg" stands for the degree sign of the alias "361[deg]", a    *)
(* character that is neither a letter, a digit nor an underscore.          *)
(***************************************************************************)
BRAND_ALIASES ==
    << [brand |-> "Nike",         aliases |-> << <<"N","i","k","e">> >>],
       [brand |-> "361 Degrees",  aliases |-> << <<"3","6","1">>,
                                                 <<"3","6","1","deg">> >>],
       [brand |-> "Under Armour", aliases |-> << <<"U","A">> >>],
       [brand |-> "New Balance",  aliases |-> << <<"N","B">>,
                                                 <<"9","9","0">> >>] >>

MODEL_CATALOG ==
    << [model |-> "Vaporfly", brand |-> "Nike", retail |-> 260,
        aliases |-> << <<"N","e","x","t","%">> >>],
       [model |-> "NB 990", brand |-> "New Balance", retail |-> 185,
        aliases |-> << <<"9","9","0">>,
                       <<"9","9","0"," ","v","6">> >>] >>

\* A registry a caller substitutes for the shipped one (the detector reads
\* whatever MODEL_CATALOG holds when it is constructed): an alias of a later
\* entry has an alias of an earlier entry strictly inside it.
PACK_CATALOG ==
    << [model |-> "NB 990", brand |-> "New Balance", retail |-> 185,
        aliases |-> << <<"9","9","0">> >>],
       [model |-> "NB 990 v6 Pack", brand |-> "New Balance", retail |-> 200,
        aliases |-> << <<"N","B"," ","9","9","0"," ","v","6">> >>] >>

Catalogs == {MODEL_CATALOG, PACK_CATALOG}

\* cfg.context_window (SentimentConfig): words on each side of a mention
context_window == 15

(***************************************************************************)
(* BrandDetector                                                           *)
(***************************************************************************)
\* BrandDetector.__init__: one (pattern, alias) per alias, brand by brand
RECURSIVE BrandPatterns(_)
BrandPatterns(registry) ==
    IF registry = <<>> THEN <<>>
    ELSE [k \in DOMAIN Head(registry).aliases |->
              [brand |-> Head(registry).brand, alias |-> Head(registry).aliases[k]]]
         \o BrandPatterns(Tail(registry))

\* the loop of _extract_context: the first word index idx with
\* pos + len(word) >= match.start, pos advancing by len(word) + 1; 0 if none
\* (word indices are 1-based here, so 0 stands for None)
RECURSIVE MatchWordIdx(_, _, _, _)
MatchWordIdx(words, idx, pos, mstart) ==
    IF idx > Len(words) THEN 0
    ELSE IF pos + Len(words[idx]) >= mstart THEN idx
    ELSE MatchWordIdx(words, idx + 1, pos + Len(words[idx]) + 1, mstart)

\* BrandDetector._extract_context
ExtractContext(words, text, m, window) ==
    LET match_word_idx == MatchWordIdx(words, 1, 0, m.start)
    IN IF match_word_idx = 0
       THEN [context |-> Slice(text, Max({0, m.start - 50}), m.end + 50),
             before |-> <<>>, after |-> <<>>]
       ELSE LET i0 == match_word_idx - 1        \* the 0-based index of Python
                start_idx == Max({0, i0 - window})
                end_idx == Min({Len(words), i0 + window + 1})
            IN [context |-> Join(Slice(words, start_idx, end_idx)),
                before |-> Slice(words, start_idx, i0),
                after |-> Slice(words, i0 + 1, end_idx)]

\* the mentions one (pattern, alias) contributes, in finditer order
BrandMentionsOf(text, words, pat, window) ==
    LET ms == FindIter(text, pat.alias, 0)
    IN [k \in DOMAIN ms |->
           LET c == ExtractContext(words, text, ms[k], window)
           IN [brand |-> pat.brand, alias |-> pat.alias,
               start |-> ms[k].start, end |-> ms[k].end,
               context |-> c.context,
               context_words_before |-> c.before,
               context_words_after |-> c.after]]

RECURSIVE BrandScan(_, _, _, _)
BrandScan(text, words, pats, window) ==
    IF pats = <<>> THEN <<>>
    ELSE BrandMentionsOf(text, words, Head(pats), window)
         \o BrandScan(text, words, Tail(pats), window)

\* BrandDetector.detect
BrandDetect(text, window) ==
    IF text = <<>> THEN <<>>
    ELSE SortByStart(BrandScan(text, Split(text), BrandPatterns(BRAND_ALIASES), window))

\* BrandDetector.detect_brands
DetectBrands(text, window) ==
    LET ms == BrandDetect(text, window)
    IN Dedup([k \in DOMAIN ms |-> ms[k].brand])

(***************************************************************************)
(* ModelDetector                                                           *)
(***************************************************************************)
\* ModelDetector.__init__: per entry, the aliases longest first
RECURSIVE ModelPatterns(_)
ModelPatterns(registry) ==
    IF registry = <<>> THEN <<>>
    ELSE LET e == Head(registry)
             as == SortByLenDesc(e.aliases)
         IN [k \in DOMAIN as |->
                [alias |-> as[k], model |-> e.model, brand |-> e.brand,
                 retail |-> e.retail]]
            \o ModelPatterns(Tail(registry))

\* the candidate matches in the order the two nested loops of detect visit them
RECURSIVE ModelCandidates(_, _)
ModelCandidates(text, pats) ==
    IF pats = <<>> THEN <<>>
    ELSE LET p == Head(pats)
             ms == FindIter(text, p.alias, 0)
         IN [k \in DOMAIN ms |->
                [model |-> p.model, brand |-> p.brand, alias |-> p.alias,
                 start |-> ms[k].start, end |-> ms[k].end,
                 retail_price |-> p.retail]]
            \o ModelCandidates(text, Tail(pats))

\* the skip test of detect:
\*   any(s <= m.start() < e or s < m.end() <= e for s, e in covered)
Covered(covered, m) ==
    \E c \in Range(covered) :
        \/ (c.start <= m.start /\ m.start < c.end)
        \/ (c.start < m.end /\ m.end <= c.end)

\* the body of the loops: a candidate is skipped or accepted; `covered` holds
\* exactly the spans of the accepted mentions
RECURSIVE AcceptModels(_, _)
AcceptModels(cands, accepted) ==
    IF cands = <<>> THEN accepted
    ELSE IF Covered(accepted, Head(cands))
         THEN AcceptModels(Tail(cands), accepted)
         ELSE AcceptModels(Tail(cands), Append(accepted, Head(cands)))

\* ModelDetector.detect
ModelDetect(registry, text) ==
    IF text = <<>> THEN <<>>
    ELSE SortByStart(AcceptModels(ModelCandidates(text, ModelPatterns(registry)), <<>>))

\* ModelDetector.detect_models
DetectModels(registry, text) ==
    LET ms == ModelDetect(registry, text)
    IN Dedup([k \in DOMAIN ms |-> ms[k].model])

(***************************************************************************)
(* The detectors applied to bounded texts: a text is the concatenation of  *)
(* at most MaxPieces pieces.                                               *)
(***************************************************************************)
Pieces ==
    { <<" ">>, <<"x">>, <<".">>, <<"U","A">>, <<"9","9","0">>, <<" ","v","6">>,
      <<"N","B"," ">>, <<"N","e","x","t","%">>, <<"3","6","1">>, <<"deg">>,
      <<" "," "," ">> }

RECURSIVE TextsOf(_)
TextsOf(n) ==
    IF n = 0 THEN {<<>>}
    ELSE LET shorter == TextsOf(n - 1)
         IN shorter \cup {t \o p : t \in shorter, p \in Pieces}

Texts == TextsOf(MaxPieces)

\* the pipeline variables play no part in the detectors' specification
PIdle ==
    /\ cfg = [context_window |-> context_window]
    /\ use_transformer = FALSE
    /\ ml_installed = FALSE
    /\ ML_AVAILABLE = <<>>
    /\ transformer = <<>>
    /\ pc = "idle"
    /\ df = <<>>
    /\ out = <<>>
    /\ calls = <<>>
    /\ raised = ""

\* no collect call has been made and nothing is on disk; nobody is inside
\* annotate
KIdle ==
    /\ checkpoint = <<>>
    /\ files = <<>>
    /\ run = [pc |-> "idle", started |-> 0, at_start |-> <<>>, completed |-> {},
              all_records |-> <<>>, i |-> 0, asked |-> <<>>]
    /\ threads = [t \in 1..MaxThreads |-> [pc |-> "idle"]]
    /\ heap = <<>>

\* no component has been called directly
CIdle ==
    /\ scorer = <<>>
    /\ op = "none"
    /\ arg = <<>>
    /\ ret = [exc |-> "", value |-> <<>>]

DInit ==
    /\ catalog \in Catalogs
    /\ dtext \in Texts
    /\ dop = "none"
    /\ dmentions = <<>>
    /\ dnames = <<>>
    /\ PIdle
    /\ CIdle
    /\ KIdle

\* brand_detector.detect(text)
DoBrandDetect ==
    /\ dop = "none"
    /\ dop' = "brand_detect"
    /\ dmentions' = BrandDetect(dtext, cfg.context_window)
    /\ dnames' = <<>>
    /\ UNCHANGED <<checkpoint, files, run, threads, heap,
                   catalog, dtext, pvars, cvars>>

\* brand_detector.detect_brands(text)
DoDetectBrands ==
    /\ dop = "none"
    /\ dop' = "detect_brands"
    /\ dmentions' = <<>>
    /\ dnames' = DetectBrands(dtext, cfg.context_window)
    /\ UNCHANGED <<checkpoint, files, run, threads, heap,
                   catalog, dtext, pvars, cvars>>

\* model_detector.detect(text)
DoModelDetect ==
    /\ dop = "none"
    /\ dop' = "model_detect"
    /\ dmentions' = ModelDetect(catalog, dtext)
    /\ dnames' = <<>>
    /\ UNCHANGED <<checkpoint, files, run, threads, heap,
                   catalog, dtext, pvars, cvars>>

\* model_detector.detect_models(text)
DoDetectModels ==
    /\ dop = "none"
    /\ dop' = "detect_models"
    /\ dmentions' = <<>>
    /\ dnames' = DetectModels(catalog, dtext)
    /\ UNCHANGED <<checkpoint, files, run, threads, heap,
                   catalog, dtext, pvars, cvars>>

DNext == DoBrandDetect \/ DoDetectBrands \/ DoModelDetect \/ DoDetectModels

SpecDetect == DInit /\ [][DNext]_vars

(***************************************************************************)
(* Properties of the detectors (checked under SpecDetect).                 *)
(***************************************************************************)
\* two half-open spans intersect
Intersect(a, b) == a.start < b.end /\ b.start < a.end

\* C8: no two mentions returned by ModelDetector.detect have intersecting
\* half-open character spans, for every text and every alias registry.
C8_NoOverlappingSpans ==
    dop = "model_detect" =>
        \A i, j \in DOMAIN dmentions :
            i # j => ~Intersect(dmentions[i], dmentions[j])

\* the characters that delimit a word or phrase in a sentence
IsDelim(c) == IsSpace(c) \/ c \in {".", ",", "!", "?", "(", ")"}

\* the alias occurs in the text as a separate word or phrase: delimited on
\* each side by a space, a punctuation mark or an end of the text
StandsAlone(text, alias) ==
    \E i \in 0..(Len(text) - Len(alias)) :
        /\ \A k \in 1..Len(alias) : Lower(text[i + k]) = Lower(alias[k])
        /\ (i = 0 \/ IsDelim(text[i]))
        /\ (i + Len(alias) = Len(text) \/ IsDelim(text[i + Len(alias) + 1]))

\* C10: every alias of every canonical brand and model, standing in the text
\* as a separate word or phrase, makes detect_brands / detect_models return
\* its canonical name, aliases ending in a non-alphanumeric character included.
C10_EveryAliasResolves ==
    /\ dop = "detect_models" =>
          \A e \in Range(catalog) : \A a \in Range(e.aliases) :
              StandsAlone(dtext, a) => e.model \in Range(dnames)
    /\ dop = "detect_brands" =>
          \A e \in Range(BRAND_ALIASES) : \A a \in Range(e.aliases) :
              StandsAlone(dtext, a) => e.brand \in Range(dnames)

(***************************************************************************)
(* Scores.  A score is an exact fraction [n, d] in lowest terms with d > 0 *)
(* (the code computes in floating point; the model computes the real       *)
(* numbers the floats approximate).  An optional value (float | None) is a *)
(* sequence: <<>> for None, <<v>> for the value v.                         *)
(***************************************************************************)
Abs(x) == IF x < 0 THEN -x ELSE x

RECURSIVE GCD(_, _)
GCD(a, b) == IF b = 0 THEN a ELSE GCD(b, a % b)

Frac(n, d) ==
    LET g == GCD(Abs(n), d)
    IN IF n = 0 THEN [n |-> 0, d |-> 1] ELSE [n |-> n \div g, d |-> d \div g]

Zero == Frac(0, 1)

FAdd(a, b) == Frac(a.n * b.d + b.n * a.d, a.d * b.d)

FSub(a, b) == Frac(a.n * b.d - b.n * a.d, a.d * b.d)

FMul(a, b) == Frac(a.n * b.n, a.d * b.d)

\* a / k for an integer k > 0
FDivInt(a, k) == Frac(a.n, a.d * k)

FLeq(a, b) == a.n * b.d <= b.n * a.d

\* sum(scores)
RECURSIVE FSum(_)
FSum(scores) == IF scores = <<>> THEN Zero ELSE FAdd(Head(scores), FSum(Tail(scores)))

None == <<>>

Some(v) == <<v>>

(***************************************************************************)
(* VaderAnalyzer.  The lexicon model is the vaderSentiment library; the    *)
(* model gives it a two-word lexicon and a bounded, odd normalisation.     *)
(***************************************************************************)
W_good == <<"g","o","o","d">>

W_bad == <<"b","a","d">>

CountWord(words, w) == Cardinality({i \in DOMAIN words : LowerSeq(words[i]) = w})

\* self._analyzer.polarity_scores(text)["compound"]
PolarityCompound(text) ==
    LET words == Split(text)
        s == CountWord(words, W_good) - CountWord(words, W_bad)
    IN Frac(s, Abs(s) + 1)

\* `not text or not text.strip()`
IsBlank(text) == \A i \in DOMAIN text : IsSpace(text[i])

\* VaderAnalyzer.score
VaderScore(text) == IF IsBlank(text) THEN Zero ELSE PolarityCompound(text)

\* VaderAnalyzer.score_batch
VaderScoreBatch(texts) == [i \in DOMAIN texts |-> VaderScore(texts[i])]

(***************************************************************************)
(* TransformerAnalyzer.  The classifier is the Hugging Face pipeline; the  *)
(* model gives it a fixed three-way distribution per snippet.              *)
(***************************************************************************)
\* self._pipeline([...]) for one snippet: the label scores, top_k=None
HFPipeline(snippet) ==
    LET words == Split(snippet)
        g == CountWord(words, W_good)
        b == CountWord(words, W_bad)
    IN IF g > b
       THEN << [label |-> "positive", score |-> Frac(8, 10)],
               [label |-> "neutral",  score |-> Frac(1, 10)],
               [label |-> "negative", score |-> Frac(1, 10)] >>
       ELSE IF b > g
       THEN << [label |-> "negative", score |-> Frac(7, 10)],
               [label |-> "neutral",  score |-> Frac(2, 10)],
               [label |-> "positive", score |-> Frac(1, 10)] >>
       ELSE << [label |-> "neutral",  score |-> Frac(7, 10)],
               [label |-> "positive", score |-> Frac(2, 10)],
               [label |-> "negative", score |-> Frac(1, 10)] >>

\* TransformerAnalyzer._labels_to_score: the last score of each kind wins,
\* a missing kind counts 0.0; the result is pos - neg
LabelKind(label) ==
    IF label \in {"positive", "pos", "label_2"} THEN "positive"
    ELSE IF label \in {"negative", "neg", "label_0"} THEN "negative"
    ELSE "neutral"

LabelsToScore(label_scores) ==
    LET Get(kind) ==
            LET hits == {i \in DOMAIN label_scores :
                            LabelKind(label_scores[i].label) = kind}
            IN IF hits = {} THEN Zero ELSE label_scores[Max(hits)].score
    IN FSub(Get("positive"), Get("negative"))

\* the indices of the snippets with `t and t.strip()`, in order
RECURSIVE NonEmptyIdx(_, _)
NonEmptyIdx(texts, i) ==
    IF i > Len(texts) THEN <<>>
    ELSE IF IsBlank(texts[i]) THEN NonEmptyIdx(texts, i + 1)
    ELSE <<i>> \o NonEmptyIdx(texts, i + 1)

\* the scores of the non-blank snippets moved to the front, the zeros behind
TransformerScores_Compacted(texts) ==
    LET non_empty == NonEmptyIdx(texts, 1)
    IN [i \in DOMAIN texts |->
           IF i <= Len(non_empty)
           THEN LabelsToScore(HFPipeline(texts[non_empty[i]]))
           ELSE Zero]

\* the body of TransformerAnalyzer.score_batch after self._load() succeeded:
\* the non-blank snippets go to the pipeline in one call, the results are
\* zipped back to their indices, every other position holds 0.0
TransformerScores(texts) ==
    LET non_empty == NonEmptyIdx(texts, 1)
        results == [k \in DOMAIN non_empty |-> HFPipeline(texts[non_empty[k]])]
        InMap(i) == \E k \in DOMAIN non_empty : non_empty[k] = i
        idx_map(i) ==
            LabelsToScore(results[CHOOSE k \in DOMAIN non_empty : non_empty[k] = i])
    IN [i \in DOMAIN texts |-> IF InMap(i) THEN idx_map(i) ELSE Zero]

(***************************************************************************)
(* ChannelDetector.  A URL is a record: the scheme written in it ("" when  *)
(* none), whether the host starts with "www.", the host as written and its *)
(* path.  The tables are excerpts of DOMAIN_TO_CHANNEL, _KEYWORD_TO_CHANNEL*)
(***************************************************************************)
DOMAIN_TO_CHANNEL ==
    << [domain |-> "nike.com",   channel |-> "Nike Direct"],
       [domain |-> "stockx.com", channel |-> "StockX"],
       [domain |-> "goat.com",   channel |-> "GOAT"] >>

KEYWORD_TO_CHANNEL ==
    << [keyword |-> <<"s","t","o","c","k","x">>, channel |-> "StockX"],
       [keyword |-> <<"g","o","a","t">>,         channel |-> "GOAT"],
       [keyword |-> <<"s","n","k","r","s">>,     channel |-> "Nike Direct"] >>

\* str.lower() of the hosts the model's URLs are written with
HostLower ==
    [h \in {"nike.com", "stockx.com", "StockX.com", "goat.com", "example.org"} |->
        IF h = "StockX.com" THEN "stockx.com" ELSE h]

\* _domain_from_url: the scheme is added when missing and dropped by urlparse
\* with the path; netloc.lower(); a leading "www." is stripped
DomainFromUrl(url) == HostLower[url.host]

\* DOMAIN_TO_CHANNEL.get(domain): <<>> for None
DomainChannel(domain) ==
    LET hits == {i \in DOMAIN DOMAIN_TO_CHANNEL : DOMAIN_TO_CHANNEL[i].domain = domain}
    IN IF hits = {} THEN None ELSE Some(DOMAIN_TO_CHANNEL[Min(hits)].channel)

\* ChannelDetector.detect_from_urls
RECURSIVE DetectFromUrls(_)
DetectFromUrls(urls) ==
    IF urls = <<>> THEN <<>>
    ELSE LET front == DetectFromUrls(SubSeq(urls, 1, Len(urls) - 1))
             channel == DomainChannel(DomainFromUrl(urls[Len(urls)]))
         IN IF channel # None /\ channel[1] \notin Range(front)
            THEN Append(front, channel[1]) ELSE front

\* sorted(_KEYWORD_TO_CHANNEL, key=len, reverse=True)
SortedKeywords ==
    SortByLenDesc([i \in DOMAIN KEYWORD_TO_CHANNEL |-> KEYWORD_TO_CHANNEL[i].keyword])

\* _KEYWORD_PATTERN.finditer(text): at each offset the alternatives are tried
\* in pattern order; the search resumes at the end of each match
RECURSIVE KeywordFindIter(_, _)
KeywordFindIter(text, from) ==
    LET Hits(i) == {k \in DOMAIN SortedKeywords : MatchAt(text, SortedKeywords[k], i)}
        cands == {i \in from..Len(text) : Hits(i) # {}}
    IN IF cands = {} THEN <<>>
       ELSE LET i == Min(cands)
                kw == SortedKeywords[Min(Hits(i))]
            IN <<Slice(text, i, i + Len(kw))>> \o KeywordFindIter(text, i + Len(kw))

\* _KEYWORD_TO_CHANNEL.get(m.group(0).lower())
KeywordChannel(group) ==
    LET hits == {i \in DOMAIN KEYWORD_TO_CHANNEL :
                    KEYWORD_TO_CHANNEL[i].keyword = LowerSeq(group)}
    IN IF hits = {} THEN None ELSE Some(KEYWORD_TO_CHANNEL[Min(hits)].channel)

\* ChannelDetector.detect_from_text
DetectFromText(text) ==
    IF text = <<>> THEN <<>>
    ELSE LET groups == KeywordFindIter(text, 0)
             found == [k \in DOMAIN groups |-> KeywordChannel(groups[k])]
         IN Dedup(Flatten(found))

\* the text channels appended without the membership test
ExtendUnique_KeepsDuplicates(channels, more) == channels \o more

\* the loop of ChannelDetector.detect over the text channels
RECURSIVE ExtendUnique(_, _)
ExtendUnique(channels, more) ==
    IF more = <<>> THEN channels
    ELSE IF Head(more) \in Range(channels) THEN ExtendUnique(channels, Tail(more))
    ELSE ExtendUnique(Append(channels, Head(more)), Tail(more))

\* ChannelDetector.detect
ChannelDetect(text, urls) ==
    ExtendUnique(IF urls # <<>> THEN DetectFromUrls(urls) ELSE <<>>,
                 DetectFromText(text))

(***************************************************************************)
(* PurchaseIntentClassifier.  The table is an excerpt of _INTENT_PATTERNS  *)
(* with the patterns of the shape \bword(\s+word)*\b, each written as its  *)
(* list of words; the categories are in the order of _PRIORITY.            *)
(***************************************************************************)
W_just == <<"j","u","s","t">>

W_copped == <<"c","o","p","p","e","d">>

W_for == <<"f","o","r">>

W_sale == <<"s","a","l","e">>

\* an order in which a listing outranks a completed purchase
PRIORITY_MarketplaceFirst ==
    << "marketplace", "completed_purchase", "selling", "seeking_purchase",
       "purchase_consideration", "availability_info", "price_discussion" >>

PRIORITY ==
    << "completed_purchase", "marketplace", "selling", "seeking_purchase",
       "purchase_consideration", "availability_info", "price_discussion" >>

INTENT_PATTERNS ==
    [intent \in Range(PRIORITY) |->
        CASE intent = "completed_purchase" ->
                 << <<W_just, W_copped>>, <<W_copped>>, <<W_just, W_copped>> >>
          [] intent = "marketplace" ->
                 << <<<<"W","T","S">>>>, <<W_for, W_sale>> >>
          [] intent = "selling" ->
                 << <<W_for, W_sale>>, <<<<"s","e","l","l","i","n","g">>>> >>
          [] intent = "seeking_purchase" ->
                 << <<<<"W","2","C">>>> >>
          [] intent = "purchase_consideration" ->
                 << <<<<"w","o","r","t","h">>, <<"i","t">>>> >>
          [] intent = "availability_info" ->
                 << <<<<"s","o","l","d">>, <<"o","u","t">>>>,
                    <<<<"i","n">>, <<"s","t","o","c","k">>>> >>
          [] intent = "price_discussion" ->
                 << <<<<"m","a","r","k","e","t">>, <<"p","r","i","c","e">>>> >>]

\* the literal `word` read at offset i, case-insensitively
LiteralAt(text, word, i) ==
    /\ i + Len(word) <= Len(text)
    /\ \A k \in 1..Len(word) : Lower(text[i + k]) = Lower(word[k])

\* where word(\s+word)* ends when tried at offset i; -1 when it does not match
RECURSIVE PhraseEnd(_, _, _)
PhraseEnd(text, words, i) ==
    IF ~LiteralAt(text, Head(words), i) THEN -1
    ELSE LET j == i + Len(Head(words))
             rest == {k \in j..Len(text) : k = Len(text) \/ ~IsSpace(text[k + 1])}
             k == Min(rest)
         IN IF Len(words) = 1 THEN j
            ELSE IF k = j THEN -1
            ELSE PhraseEnd(text, Tail(words), k)

PhraseMatchAt(text, words, i) ==
    /\ WordBoundary(text, i)
    /\ PhraseEnd(text, words, i) # -1
    /\ WordBoundary(text, PhraseEnd(text, words, i))

\* pat.finditer(text) for one intent pattern: the matched substrings
RECURSIVE PhraseFindIter(_, _, _)
PhraseFindIter(text, words, from) ==
    LET cands == {i \in from..Len(text) : PhraseMatchAt(text, words, i)}
    IN IF cands = {} THEN <<>>
       ELSE LET i == Min(cands)
                e == PhraseEnd(text, words, i)
            IN <<Slice(text, i, e)>> \o PhraseFindIter(text, words, e)

\* the snippets of one category: every match of every pattern, in order
RECURSIVE Snippets(_, _)
Snippets(text, pats) ==
    IF pats = <<>> THEN <<>>
    ELSE PhraseFindIter(text, Head(pats), 0) \o Snippets(text, Tail(pats))

\* the loop stopped at the first category that matched
MatchedIntents_FirstOnly(text, intents) ==
    LET hits == {k \in DOMAIN intents :
                    Snippets(text, INTENT_PATTERNS[intents[k]]) # <<>>}
    IN IF hits = {} THEN <<>> ELSE <<intents[Min(hits)]>>

\* the loop of classify over _PRIORITY
RECURSIVE MatchedIntents(_, _)
MatchedIntents(text, intents) ==
    IF intents = <<>> THEN <<>>
    ELSE IF Snippets(text, INTENT_PATTERNS[Head(intents)]) # <<>>
         THEN <<Head(intents)>> \o MatchedIntents(text, Tail(intents))
         ELSE MatchedIntents(text, Tail(intents))

\* PurchaseIntentClassifier.classify
Classify(text) ==
    IF text = <<>>
    THEN [primary_intent |-> None, all_intents |-> <<>>, matched_patterns |-> <<>>]
    ELSE LET all_intents == MatchedIntents(text, PRIORITY)
         IN [primary_intent |->
                 IF all_intents # <<>> THEN Some(all_intents[1]) ELSE None,
             all_intents |-> all_intents,
             matched_patterns |->
                 [k \in DOMAIN all_intents |->
                     [intent |-> all_intents[k],
                      snippets |-> Snippets(text, INTENT_PATTERNS[all_intents[k]])]]]

(***************************************************************************)
(* SentimentPipeline                                                       *)
(***************************************************************************)
\* SentimentConfig: the defaults, and a second configuration (the fields are
\* settings a deployment may override)
DefaultConfig ==
    [transformer_weight |-> Frac(6, 10), vader_weight |-> Frac(4, 10),
     context_window |-> context_window]

NarrowConfig ==
    [transformer_weight |-> Frac(1, 2), vader_weight |-> Frac(1, 2),
     context_window |-> 1]

\* SentimentConfig is a BaseSettings: both weights are read from the
\* environment, and nothing makes them sum to 1 (the third configuration)
Configs ==
    { DefaultConfig, NarrowConfig,
      [transformer_weight |-> Frac(1, 1), vader_weight |-> Frac(1, 1),
       context_window |-> context_window] }

\* transformer._check_ml: the answer is computed once and cached in the
\* module global; returns the answer and the new value of the global
CheckMl(cache, installed) ==
    IF cache = None
    THEN [value |-> installed, cache |-> Some(installed)]
    ELSE [value |-> cache[1], cache |-> cache]

\* an analyzer whose constructor loads the model
NewTransformerAnalyzer_Eager == [pipeline_loaded |-> TRUE]

\* TransformerAnalyzer.__init__: nothing is imported, _pipeline is None
NewTransformerAnalyzer == [pipeline_loaded |-> FALSE]

\* SentimentPipeline._get_transformer
GetTransformer(t) == IF t = None THEN Some(NewTransformerAnalyzer) ELSE t

\* TransformerAnalyzer._load: a loaded pipeline is kept; otherwise ImportError
\* unless _check_ml() answers True
Load(analyzer, cache, installed) ==
    IF analyzer.pipeline_loaded
    THEN [exc |-> "", analyzer |-> analyzer, cache |-> cache]
    ELSE LET c == CheckMl(cache, installed)
         IN IF ~c.value
            THEN [exc |-> "ImportError", analyzer |-> analyzer, cache |-> c.cache]
            ELSE [exc |-> "", analyzer |-> [pipeline_loaded |-> TRUE],
                  cache |-> c.cache]

\* TransformerAnalyzer.score_batch
ScoreBatch(analyzer, texts, cache, installed) ==
    IF texts = <<>>
    THEN [exc |-> "", scores |-> <<>>, analyzer |-> analyzer, cache |-> cache]
    ELSE LET l == Load(analyzer, cache, installed)
         IN IF l.exc # ""
            THEN [exc |-> l.exc, scores |-> <<>>, analyzer |-> l.analyzer,
                  cache |-> l.cache]
            ELSE [exc |-> "", scores |-> TransformerScores(texts),
                  analyzer |-> l.analyzer, cache |-> l.cache]

\* an absent text replaced by a word instead of the empty string
FillNa_Placeholder(v) == IF v = None THEN <<"g","o","o","d">> ELSE v[1]

\* df["full_text"].fillna("")
FillNa(v) == IF v = None THEN <<>> ELSE v[1]

\* urls_col: the column, or an empty list per text when there is no column
UrlsCol(d) ==
    [i \in DOMAIN d.rows |->
        IF "extracted_urls" \in d.columns
        THEN d.rows[i].extracted_urls
        ELSE [kind |-> "list", items |-> <<>>]]

\* `urls if isinstance(urls, list) else []`
UrlsArg(urls) == IF urls.kind = "list" THEN urls.items ELSE <<>>

\* the windows gathered from the last text to the first
RECURSIVE BrandContexts_LastTextFirst(_, _)
BrandContexts_LastTextFirst(all_mentions, i) ==
    IF i > Len(all_mentions) THEN <<>>
    ELSE BrandContexts_LastTextFirst(all_mentions, i + 1)
         \o [k \in DOMAIN all_mentions[i] |->
                [context |-> all_mentions[i][k].context, row |-> i]]

\* step 2: brand_contexts and context_text_indices, as one list of pairs
RECURSIVE BrandContexts(_, _)
BrandContexts(all_mentions, i) ==
    IF i > Len(all_mentions) THEN <<>>
    ELSE [k \in DOMAIN all_mentions[i] |->
             [context |-> all_mentions[i][k].context, row |-> i]]
         \o BrandContexts(all_mentions, i + 1)

\* a try block that lets the ImportError through
Caught_Nothing(exc) == FALSE

\* the exceptions the try block of step 3 catches
Caught(exc) == exc = "ImportError"

\* a guard that forgets the use_transformer flag
ScorerWanted_IgnoresFlag(use, contexts) == contexts # <<>>

\* the guard of step 3: `if self._use_transformer and brand_contexts`
ScorerWanted(use, contexts) == use /\ contexts # <<>>

\* step 3: the scores of the contexts, whether the transformer produced them,
\* the calls made to it, and what becomes of the lazily built objects
ContextScoring(contexts, use, t, cache, installed, vader_fallback) ==
    IF ScorerWanted(use, contexts)
    THEN LET t1 == GetTransformer(t)
             r == ScoreBatch(t1[1], contexts, cache, installed)
             call == [method |-> "score_batch", texts |-> contexts]
         IN IF r.exc = ""
            THEN [exc |-> "", scores |-> r.scores, available |-> TRUE,
                  calls |-> <<call>>, transformer |-> Some(r.analyzer),
                  cache |-> r.cache]
            ELSE IF Caught(r.exc)
            THEN [exc |-> "", scores |-> vader_fallback, available |-> FALSE,
                  calls |-> <<call>>, transformer |-> Some(r.analyzer),
                  cache |-> r.cache]
            ELSE [exc |-> r.exc, scores |-> <<>>, available |-> FALSE,
                  calls |-> <<call>>, transformer |-> Some(r.analyzer),
                  cache |-> r.cache]
    ELSE [exc |-> "", scores |-> <<>>, available |-> FALSE, calls |-> <<>>,
          transformer |-> t, cache |-> cache]

\* text_transformer_scores.get(i, []): the scores of the contexts of row i,
\*   score = context_transformer_scores[ctx_idx] if context_transformer_scores else 0.0
RowContextScores(entries, scores, i) ==
    LET idx == {k \in DOMAIN entries : entries[k].row = i}
        Pick(k) == IF scores # <<>> THEN scores[k] ELSE Zero
        RECURSIVE Collect(_)
        Collect(k) ==
            IF k > Len(entries) THEN <<>>
            ELSE IF k \in idx THEN <<Pick(k)>> \o Collect(k + 1)
            ELSE Collect(k + 1)
    IN Collect(1)

\* a row without contexts scored 0.0 instead of None
TScore_ZeroWhenEmpty(t_scores, available) ==
    IF ~available THEN None
    ELSE IF t_scores = <<>> THEN Some(Zero)
    ELSE Some(FDivInt(FSum(t_scores), Len(t_scores)))

\* t_score of a row
TScore(t_scores, available) ==
    IF t_scores # <<>> /\ available
    THEN Some(FDivInt(FSum(t_scores), Len(t_scores)))
    ELSE None

\* the blend with the two weights exchanged
Hybrid_SwappedWeights(t_score, vader, c) ==
    IF t_score # None
    THEN FAdd(FMul(c.vader_weight, t_score[1]), FMul(c.transformer_weight, vader))
    ELSE vader

\* the two scores added without their weights
Hybrid_Unweighted(t_score, vader, c) ==
    IF t_score # None THEN FAdd(t_score[1], vader) ELSE vader

\* the hybrid blend of a row
Hybrid(t_score, vader, c) ==
    IF t_score # None
    THEN FAdd(FMul(c.transformer_weight, t_score[1]), FMul(c.vader_weight, vader))
    ELSE vader

\* list(s) for a set s of strings: the iteration order of a set is decided by
\* the hashes of its elements (randomised per process), so any order can come out
ListOfSet(S) ==
    {o \in [1..Cardinality(S) -> S] : \A a, b \in DOMAIN o : a # b => o[a] # o[b]}

\* `brands = list({m.brand for m in all_mentions[i]})`: the possible lists
BrandLists(mentions) == ListOfSet({mentions[k].brand : k \in DOMAIN mentions})

\* the columns annotate adds to row i, for one of the possible brand lists
NewColumns(text, urls, vader, t_score, c, brands) ==
    LET intent_result == Classify(text)
    IN [vader_score |-> vader,
        transformer_score |-> t_score,
        hybrid_score |-> Hybrid(t_score, vader, c),
        brands |-> brands,
        models |-> DetectModels(MODEL_CATALOG, text),
        channels |-> ChannelDetect(text, UrlsArg(urls)),
        primary_intent |-> intent_result.primary_intent,
        all_intents |-> intent_result.all_intents]

\* the rows assembled from the last to the first
RECURSIVE Product_Reversed(_)
Product_Reversed(sets) ==
    IF sets = <<>> THEN {<<>>}
    ELSE {rest \o <<x>> : x \in Head(sets), rest \in Product_Reversed(Tail(sets))}

\* the columns assigned to the DataFrame, row by row: the sequences whose i-th
\* element is drawn from the i-th set
RECURSIVE Product(_)
Product(sets) ==
    IF sets = <<>> THEN {<<>>}
    ELSE {<<x>> \o rest : x \in Head(sets), rest \in Product(Tail(sets))}

\* steps 4 and 5 of annotate: the DataFrames it may return once the contexts
\* are scored.  `df[name] = values` adds the column name to the copy annotate
\* works on, or replaces the column of that name
AnnotateRows(d, c, scores, available) ==
    LET texts == [i \in DOMAIN d.rows |-> FillNa(d.rows[i].full_text)]
        urls_col == UrlsCol(d)
        vader_scores == VaderScoreBatch(texts)
        all_mentions == [i \in DOMAIN texts |-> BrandDetect(texts[i], c.context_window)]
        entries == BrandContexts(all_mentions, 1)
        RowSet(i) ==
            LET t_score == TScore(RowContextScores(entries, scores, i), available)
            IN {NewColumns(texts[i], urls_col[i], vader_scores[i],
                           t_score, c, brands) @@ d.rows[i] :
                    brands \in BrandLists(all_mentions[i])}
    IN Product([i \in DOMAIN d.rows |-> RowSet(i)])

\* brand_contexts of the DataFrame d (steps 1 and 2 of annotate)
ContextsOf(d, c) ==
    LET texts == [i \in DOMAIN d.rows |-> FillNa(d.rows[i].full_text)]
        all_mentions == [i \in DOMAIN texts |-> BrandDetect(texts[i], c.context_window)]
        entries == BrandContexts(all_mentions, 1)
    IN [k \in DOMAIN entries |-> entries[k].context]

\* SentimentPipeline.annotate on the DataFrame d: the exception that escapes
\* (if any), the DataFrames it may return, and its effect on the pipeline
AnnotateRun(d, c, use, t, cache, installed) ==
    LET brand_contexts == ContextsOf(d, c)
        s == ContextScoring(brand_contexts, use, t, cache, installed,
                            VaderScoreBatch(brand_contexts))
    IN [exc |-> s.exc,
        results |-> IF s.exc # "" THEN {<<>>}
                    ELSE AnnotateRows(d, c, s.scores, s.available),
        calls |-> s.calls,
        transformer |-> s.transformer,
        cache |-> s.cache]

(***************************************************************************)
(* The pipeline as a state machine: a pipeline is constructed, annotate is *)
(* called on a DataFrame of at most MaxBatch rows and returns, and may be  *)
(* called again on the same pipeline object.                               *)
(***************************************************************************)
T_good == <<"g","o","o","d">>

T_copped == <<"c","o","p","p","e","d"," ","N","i","k","e"," ","g","o","o","d">>

T_two == <<"U","A"," ","b","a","d"," ","x"," ","N","i","k","e"," ","g","o","o","d">>

T_sale ==
    <<"N","B"," ","9","9","0"," ","v","6"," ","f","o","r"," ","s","a","l","e",
      " ","s","t","o","c","k","x">>

T_next == <<"N","e","x","t","%"," ","g","o","a","t">>

Url(scheme, www, host, path) ==
    [scheme |-> scheme, www |-> www, host |-> host, path |-> path]

ListOf(items) == [kind |-> "list", items |-> items]

NdArrayOf(items) == [kind |-> "ndarray", items |-> items]

Row(id, text, urls) == [id |-> id, full_text |-> text, extracted_urls |-> urls]

\* the records annotate is given: an absent text, a text without a brand, texts
\* with one brand, with two brands and with two mentions of one brand, URL
\* lists as built by the collector and as read back from Parquet (an ndarray),
\* and an empty text whose URL cell holds None
Rows ==
    { Row("p1", None, ListOf(<<>>)),
      Row("p2", Some(T_good), ListOf(<<>>)),
      Row("p3", Some(T_copped), ListOf(<<Url("https://", TRUE, "StockX.com", "/buy")>>)),
      Row("p4", Some(T_two), ListOf(<<>>)),
      Row("p5", Some(T_sale), ListOf(<<Url("", FALSE, "goat.com", ""),
                                       Url("http://", FALSE, "example.org", "/a"),
                                       Url("https://", FALSE, "stockx.com", "")>>)),
      Row("p6", Some(T_next), NdArrayOf(<<Url("https://", FALSE, "nike.com", "")>>)),
      Row("p7", Some(<<>>), [kind |-> "none", items |-> <<>>]) }

\* the sequences of at most n rows
RECURSIVE RowSeqs(_)
RowSeqs(n) ==
    IF n = 0 THEN {<<>>}
    ELSE LET shorter == RowSeqs(n - 1)
         IN shorter \cup {Append(rs, r) : rs \in shorter, r \in Rows}

\* a DataFrame without the extracted_urls column
WithoutUrls(rows) ==
    [i \in DOMAIN rows |-> [id |-> rows[i].id, full_text |-> rows[i].full_text]]

\* the DataFrames annotate is given: with and without the extracted_urls
\* column, and DataFrames that went through an annotation before and still
\* carry the lexicon score written then
DataFrames ==
    {[columns |-> {"id", "full_text", "extracted_urls"}, rows |-> rs] :
        rs \in RowSeqs(MaxBatch)}
    \cup {[columns |-> {"id", "full_text"}, rows |-> WithoutUrls(rs)] :
             rs \in RowSeqs(1)}
    \cup {[columns |-> {"id", "full_text", "extracted_urls", "vader_score"},
           rows |-> [i \in DOMAIN rs |-> [vader_score |-> Frac(9, 10)] @@ rs[i]]] :
             rs \in RowSeqs(1) \ {<<>>}}

NoFrame == [columns |-> {}, rows |-> <<>>]

\* the detector variables play no part in the pipeline's specification
DIdle ==
    /\ catalog = MODEL_CATALOG
    /\ dtext = <<>>
    /\ dop = "none"
    /\ dmentions = <<>>
    /\ dnames = <<>>

\* SentimentPipeline.__init__ in a process that has not imported the
\* transformer yet: nothing is loaded
PInit ==
    /\ cfg \in Configs
    /\ use_transformer \in BOOLEAN
    /\ ml_installed \in BOOLEAN
    /\ ML_AVAILABLE = None
    /\ transformer = None
    /\ pc = "idle"
    /\ df = NoFrame
    /\ out = <<>>
    /\ calls = <<>>
    /\ raised = ""

Init == DIdle /\ PInit /\ CIdle /\ KIdle

\* pipeline.annotate(d)
Annotate(d) ==
    /\ pc = "idle"
    /\ \E r \in {AnnotateRun(d, cfg, use_transformer, transformer, ML_AVAILABLE,
                              ml_installed)} :
          /\ out' \in r.results
          /\ raised' = r.exc
          /\ calls' = r.calls
          /\ transformer' = r.transformer
          /\ ML_AVAILABLE' = r.cache
    /\ df' = d
    /\ pc' = "returned"
    /\ UNCHANGED <<checkpoint, files, run, threads, heap,
                   cfg, use_transformer, ml_installed, dvars, cvars>>

\* the caller takes the result; the pipeline object stays as annotate left it
Return ==
    /\ pc = "returned"
    /\ pc' = "idle"
    /\ df' = NoFrame
    /\ out' = <<>>
    /\ calls' = <<>>
    /\ raised' = ""
    /\ UNCHANGED <<checkpoint, files, run, threads, heap,
                   cfg, use_transformer, ml_installed, ML_AVAILABLE, transformer,
                   dvars, cvars>>

Next == (\E d \in DataFrames : Annotate(d)) \/ Return

Spec == Init /\ [][Next]_vars

(***************************************************************************)
(* Properties of SentimentPipeline.annotate (checked under Spec).          *)
(***************************************************************************)
Returned == pc = "returned"

RowText(i) == FillNa(df.rows[i].full_text)

\* the brand-context windows of row i, in detection order
Windows(i) ==
    LET ms == BrandDetect(RowText(i), cfg.context_window)
    IN [k \in DOMAIN ms |-> ms[k].context]

\* the windows of the whole batch: texts in input order
AllWindows == Flatten([i \in DOMAIN df.rows |-> Windows(i)])

Mean(scores) == FDivInt(FSum(scores), Len(scores))

NoDuplicates(s) == \A a, b \in DOMAIN s : a # b => s[a] # s[b]

\* the dependency of the contextual scorer is missing in this process
Unavailable == ~ml_installed

\* C1: annotate returns exactly one annotated record per input record, in the
\* input order and carrying the same identifiers, for every batch, with the
\* contextual scorer enabled or disabled, available or unavailable.
C1_OneRecordPerInput ==
    Returned =>
        /\ raised = ""
        /\ Len(out) = Len(df.rows)
        /\ \A i \in DOMAIN df.rows : out[i].id = df.rows[i].id

C1_Witness ==
    /\ Returned
    /\ use_transformer /\ Unavailable
    /\ Len(df.rows) = 2
    /\ out[1].id = "p4" /\ out[2].id = "p2"

\* C2: with the contextual scorer disabled, every record's hybrid score is its
\* lexicon score, its contextual score is None, and the contextual scorer is
\* neither constructed nor called, whether or not the texts mention brands.
C2_DisabledIsLexiconOnly ==
    (Returned /\ ~use_transformer) =>
        /\ transformer = None
        /\ calls = <<>>
        /\ \A i \in DOMAIN out :
              /\ out[i].hybrid_score = VaderScore(RowText(i))
              /\ out[i].transformer_score = None

C2_Witness ==
    /\ Returned /\ ~use_transformer
    /\ Len(out) = 2
    /\ Windows(1) # <<>>
    /\ out[1].hybrid_score # Zero

\* C3: with the scorer enabled and its dependency unavailable, every text with
\* at least one window gets a contextual value equal to the average of the
\* lexicon scores of its own windows, blended into its hybrid score; only
\* texts with 0 windows have an absent contextual value.
C3_FallbackScoresAreUsed ==
    (Returned /\ use_transformer /\ Unavailable) =>
        \A i \in DOMAIN out :
            IF Windows(i) = <<>>
            THEN out[i].transformer_score = None
            ELSE LET fallback == Mean(VaderScoreBatch(Windows(i)))
                 IN /\ out[i].transformer_score = Some(fallback)
                    /\ out[i].hybrid_score =
                           FAdd(FMul(cfg.transformer_weight, fallback),
                                FMul(cfg.vader_weight, VaderScore(RowText(i))))

\* C4: with the scorer enabled and its dependency unavailable, annotate does
\* not raise: the ImportError of the one batched call is caught and one
\* annotation is returned for every record.
C4_UnavailableDoesNotRaise ==
    (Returned /\ use_transformer /\ Unavailable) =>
        /\ raised = ""
        /\ Len(calls) <= 1
        /\ Len(out) = Len(df.rows)

C4_Witness ==
    /\ Returned /\ use_transformer /\ Unavailable
    /\ Len(calls) = 1
    /\ ML_AVAILABLE = Some(FALSE)
    /\ Len(out) = 2 /\ Windows(1) # <<>> /\ Windows(2) # <<>>

\* C5: a record with a contextual value has hybrid_score =
\* transformer_weight * contextual + lexicon_weight * lexicon with the
\* configured weights (0.6 and 0.4 by default); a record without one has the
\* lexicon score unchanged.
C5_HybridBlend ==
    Returned =>
        \A i \in DOMAIN out :
            LET t == out[i].transformer_score
                v == out[i].vader_score
                h == out[i].hybrid_score
            IN /\ v = VaderScore(RowText(i))
               /\ t = None => h = v
               /\ t # None =>
                     /\ h = FAdd(FMul(cfg.transformer_weight, t[1]),
                                 FMul(cfg.vader_weight, v))
                     /\ cfg = DefaultConfig =>
                            FMul(h, Frac(10, 1)) =
                                FAdd(FMul(Frac(6, 1), t[1]), FMul(Frac(4, 1), v))

C5_Witness ==
    /\ Returned /\ cfg = DefaultConfig
    /\ \E i \in DOMAIN out :
          /\ out[i].transformer_score # None
          /\ out[i].vader_score # Zero
          /\ out[i].transformer_score[1] # out[i].vader_score
    /\ \E i \in DOMAIN out : out[i].transformer_score = None

\* C6: in one annotate call with the scorer enabled, the batch method of the
\* contextual scorer is called exactly once, with the flat list of all the
\* brand-context windows of the batch (texts in input order, mentions in
\* detection order), when there is a window, and not at all otherwise.
C6_OneBatchedCall ==
    (Returned /\ use_transformer) =>
        IF AllWindows # <<>>
        THEN calls = <<[method |-> "score_batch", texts |-> AllWindows]>>
        ELSE calls = <<>>

C6_Witness ==
    /\ Returned /\ use_transformer
    /\ Len(df.rows) = 2
    /\ Len(Windows(1)) = 2 /\ Len(Windows(2)) = 1
    /\ Windows(1)[1] # Windows(1)[2]
    /\ Len(calls) = 1 /\ Len(calls[1].texts) = 3

\* C7: when the contextual scorer is available, each text's contextual score
\* is the mean of the scores returned for exactly its own windows, and a text
\* with 0 brand mentions has no contextual score (None, not 0) and a hybrid
\* score equal to its lexicon score.
C7_MeanOfOwnWindows ==
    (Returned /\ use_transformer /\ ml_installed) =>
        \A i \in DOMAIN out :
            IF Windows(i) = <<>>
            THEN /\ out[i].transformer_score = None
                 /\ out[i].hybrid_score = VaderScore(RowText(i))
            ELSE out[i].transformer_score =
                     Some(Mean([k \in DOMAIN Windows(i) |->
                                   LabelsToScore(HFPipeline(Windows(i)[k]))]))

C7_Witness ==
    /\ Returned /\ use_transformer /\ ml_installed
    /\ Len(out) = 2
    /\ Windows(1) = <<>> /\ out[1].vader_score # Zero
    /\ Len(Windows(2)) = 2
    /\ LabelsToScore(HFPipeline(Windows(2)[1])) # LabelsToScore(HFPipeline(Windows(2)[2]))

\* C9: in each annotation the brand, model and channel lists hold each
\* canonical name at most once and in first-occurrence order; the brands list
\* of a record equals detect_brands of its text (same names, same order).
C9_ListsInFirstOccurrenceOrder ==
    Returned =>
        \A i \in DOMAIN out :
            /\ out[i].brands = DetectBrands(RowText(i), cfg.context_window)
            /\ NoDuplicates(out[i].brands)
            /\ NoDuplicates(out[i].models)
            /\ NoDuplicates(out[i].channels)

\* the URL collection of row i as the caller passed it, whatever its type
RowUrls(i) ==
    IF "extracted_urls" \in df.columns THEN df.rows[i].extracted_urls.items ELSE <<>>

IsPrefix(p, s) == Len(p) <= Len(s) /\ SubSeq(s, 1, Len(p)) = p

\* C11: every URL of a record whose normalised domain is in the domain table
\* contributes its channel to the record's channel list, ahead of the channels
\* found in the text, for every URL collection the caller passes, including
\* one read back from storage.
C11_UrlChannelsComeFirst ==
    Returned =>
        \A i \in DOMAIN out :
            IsPrefix(DetectFromUrls(RowUrls(i)), out[i].channels)

(***************************************************************************)
(* The components called directly, as the API, the dashboard and the tests *)
(* call them: a caller builds a TransformerAnalyzer or a SentimentPipeline *)
(* and scores snippets, or makes one call of a stateless component.        *)
(***************************************************************************)
\* TransformerAnalyzer.score: a blank snippet scores 0.0 before _load
Score(analyzer, text, cache, installed) ==
    IF IsBlank(text)
    THEN [exc |-> "", value |-> Zero, analyzer |-> analyzer, cache |-> cache]
    ELSE LET l == Load(analyzer, cache, installed)
         IN IF l.exc # ""
            THEN [exc |-> l.exc, value |-> <<>>, analyzer |-> l.analyzer,
                  cache |-> l.cache]
            ELSE [exc |-> "", value |-> LabelsToScore(HFPipeline(text)),
                  analyzer |-> l.analyzer, cache |-> l.cache]

\* the operations that keep state between calls; every other component is
\* stateless and is called once
StatefulOps == {"none", "TransformerAnalyzer", "SentimentPipeline", "score", "score_batch"}

\* the arguments callers pass: snippets and batches of at most MaxBatch
\* snippets for the scorer (empty, whitespace only, with and without a brand);
\* texts of at most MaxPieces pieces and URL lists for the channel detector
\* and the intent classifier; compound scores of the lexicon, which are
\* rounded to 4 decimals, on and around the label thresholds; annotated
\* frames for the brand comparison
CallInputs ==
    LET snippets == {<<>>, <<" ", " ">>, T_good, T_two}
        RECURSIVE BatchesOf(_)
        BatchesOf(n) ==
            IF n = 0 THEN {<<>>}
            ELSE LET shorter == BatchesOf(n - 1)
                 IN shorter \cup {Append(b, t) : b \in shorter, t \in snippets}
        pieces ==
            { <<" ">>, <<"x">>, <<"s","t","o","c","k","x">>, <<"G","o","a","t">>,
              <<"j","u","s","t"," ">>, <<"c","o","p","p","e","d">>,
              <<"f","o","r"," ">>, <<"s","a","l","e">>, <<"W","T","S">> }
        RECURSIVE TextsUpTo(_)
        TextsUpTo(n) ==
            IF n = 0 THEN {<<>>}
            ELSE LET shorter == TextsUpTo(n - 1)
                 IN shorter \cup {t \o q : t \in shorter, q \in pieces}
        stockx == Url("https://", TRUE, "StockX.com", "/buy")
        goat == Url("", FALSE, "goat.com", "")
        other == Url("http://", FALSE, "example.org", "/a")
        nike == Url("https://", FALSE, "nike.com", "")
        Annotated(brands, hybrid) == [brands |-> brands, hybrid_score |-> hybrid]
        Post(id, stickied) == [id |-> id, stickied |-> stickied]
        Page(children, after) == [error |-> FALSE, children |-> children, after |-> after]
        responses ==
            { [error |-> TRUE, children |-> <<>>, after |-> FALSE],
              Page(<<>>, TRUE),
              Page(<<Post("a", FALSE)>>, TRUE),
              Page(<<Post("m", TRUE), Post("b", FALSE)>>, TRUE),
              Page(<<Post("c", FALSE), Post("d", FALSE)>>, TRUE),
              Page(<<Post("e", FALSE), Post("f", FALSE)>>, FALSE) }
        RECURSIVE PagesUpTo(_)
        PagesUpTo(n) ==
            IF n = 0 THEN {<<>>}
            ELSE LET shorter == PagesUpTo(n - 1)
                 IN shorter \cup {Append(ps, r) : ps \in shorter, r \in responses}
    IN [snippets |-> snippets,
        batches |-> BatchesOf(MaxBatch),
        texts |-> TextsUpTo(MaxPieces),
        urls |-> { <<>>, <<other>>, <<goat, other, stockx>>, <<nike, goat>>,
                   <<stockx, goat, stockx>> },
        requests |-> {<<>>, <<" ">>, <<" ">> \o T_good, T_two \o <<" ">>, T_next},
        compounds |-> { Frac(-1, 2), Frac(-501, 10000), Frac(-5, 100),
                        Frac(-499, 10000), Zero, Frac(499, 10000), Frac(5, 100),
                        Frac(501, 10000), Frac(1, 2) },
        frames |-> { <<>>,
                     << Annotated(<<"Nike">>, Frac(1, 2)),
                        Annotated(<<"Nike", "Anta">>, Frac(-2, 5)),
                        Annotated(<<>>, Frac(9, 10)),
                        Annotated(<<"Nike">>, Frac(1, 20)) >>,
                     << Annotated(<<"New Balance">>, Frac(-1, 20)),
                        Annotated(<<"Nike">>, Frac(-1, 20)),
                        Annotated(<<"Anta", "New Balance">>, Frac(-1, 20)) >> },
        min_mentions |-> {1, 2, 3, 5},
        limits |-> {1, 2, 3},
        pages |-> PagesUpTo(2)]

\* nothing has been constructed or called: the transformer module has not
\* probed its dependency
CInit ==
    /\ DIdle
    /\ PInit
    /\ cfg = DefaultConfig
    /\ use_transformer = FALSE
    /\ CIdle
    /\ KIdle

\* TransformerAnalyzer()
NewAnalyzer ==
    /\ op \in StatefulOps
    /\ scorer' = Some(NewTransformerAnalyzer)
    /\ op' = "TransformerAnalyzer"
    /\ arg' = <<>>
    /\ ret' = [exc |-> "", value |-> <<>>]
    /\ UNCHANGED <<checkpoint, files, run, threads, heap, dvars, pvars>>

\* SentimentPipeline(use_transformer=use)
NewPipeline(use) ==
    /\ op \in StatefulOps
    /\ cfg' \in Configs
    /\ use_transformer' = use
    /\ transformer' = None
    /\ op' = "SentimentPipeline"
    /\ arg' = <<use>>
    /\ ret' = [exc |-> "", value |-> <<>>]
    /\ UNCHANGED <<checkpoint, files, run, threads, heap,
                   ml_installed, ML_AVAILABLE, pc, df, out, calls, raised, dvars, scorer>>

\* scorer.score(text)
CallScore(text) ==
    /\ op \in StatefulOps
    /\ scorer # None
    /\ \E r \in {Score(scorer[1], text, ML_AVAILABLE, ml_installed)} :
          /\ ret' = [exc |-> r.exc, value |-> r.value]
          /\ scorer' = Some(r.analyzer)
          /\ ML_AVAILABLE' = r.cache
    /\ op' = "score"
    /\ arg' = text
    /\ UNCHANGED <<checkpoint, files, run, threads, heap,
                   cfg, use_transformer, ml_installed, transformer, pc, df, out,
                   calls, raised, dvars>>

\* scorer.score_batch(texts)
CallScoreBatch(texts) ==
    /\ op \in StatefulOps
    /\ scorer # None
    /\ \E r \in {ScoreBatch(scorer[1], texts, ML_AVAILABLE, ml_installed)} :
          /\ ret' = [exc |-> r.exc, value |-> r.scores]
          /\ scorer' = Some(r.analyzer)
          /\ ML_AVAILABLE' = r.cache
    /\ op' = "score_batch"
    /\ arg' = texts
    /\ UNCHANGED <<checkpoint, files, run, threads, heap,
                   cfg, use_transformer, ml_installed, transformer, pc, df, out,
                   calls, raised, dvars>>

\* VaderAnalyzer().score_batch(texts)
CallVaderScoreBatch(texts) ==
    /\ op = "none"
    /\ op' = "vader_score_batch"
    /\ arg' = texts
    /\ ret' = [exc |-> "", value |-> VaderScoreBatch(texts)]
    /\ UNCHANGED <<checkpoint, files, run, threads, heap, dvars, pvars, scorer>>

\* PublicSubredditCollector._fetch_listing(subreddit, sort, limit), the k-th
\* request being answered by pages[k] (a request beyond them fails): the
\* records returned and the `limit` parameter of every request made
FetchListing(limit, pages) ==
    LET batch == 100
        Kept(children) == SelectSeq(children, LAMBDA child : ~child.stickied)
        RECURSIVE While(_, _, _)
        While(records, params, k) ==
            IF ~(Len(records) < limit) THEN [records |-> records, params |-> params]
            ELSE LET asked == Append(params, Min({batch, limit - Len(records)}))
                 IN IF k > Len(pages) \/ pages[k].error \/ pages[k].children = <<>>
                    THEN [records |-> records, params |-> asked]
                    ELSE LET more == records \o Kept(pages[k].children)
                         IN IF ~pages[k].after
                            THEN [records |-> more, params |-> asked]
                            ELSE While(more, asked, k + 1)
    IN While(<<>>, <<>>, 1)

\* collector._fetch_listing(subreddit, sort, limit) against a server that
\* answers with the given pages
CallFetchListing(limit, pages) ==
    /\ op = "none"
    /\ op' = "_fetch_listing"
    /\ arg' = [limit |-> limit, pages |-> pages]
    /\ ret' = [exc |-> "", value |-> FetchListing(limit, pages)]
    /\ UNCHANGED <<checkpoint, files, run, threads, heap, dvars, pvars, scorer>>

\* round(x, 4), halves to the even digit
Round4(x) ==
    LET scaled == x.n * 10000
        q == scaled \div x.d
        r == scaled % x.d
    IN IF 2 * r > x.d \/ (2 * r = x.d /\ q % 2 = 1)
       THEN Frac(q + 1, 10000) ELSE Frac(q, 10000)

\* BrandMetrics.sentiment_label
SentimentLabel(avg_hybrid_score) ==
    IF ~FLeq(avg_hybrid_score, Frac(5, 100)) THEN "Positive"
    ELSE IF ~FLeq(Frac(-5, 100), avg_hybrid_score) THEN "Negative"
    ELSE "Neutral"

\* BrandComparisonAnalyzer.compute(df, **kwargs): the method takes df only, so
\* a keyword argument is a TypeError; the result maps each brand of the
\* exploded frame to its metrics (the averages of the lexicon score and of
\* the post score and the subreddits are not modelled)
Compute(d, kwargs) ==
    IF kwargs # {} THEN [exc |-> "TypeError", value |-> <<>>]
    ELSE LET brands == UNION {Range(d[i].brands) : i \in DOMAIN d}
             RECURSIVE Hybrid_of(_, _)
             Hybrid_of(b, i) ==
                 IF i > Len(d) THEN <<>>
                 ELSE IF b \in Range(d[i].brands)
                      THEN <<d[i].hybrid_score>> \o Hybrid_of(b, i + 1)
                      ELSE Hybrid_of(b, i + 1)
             Pct(hits, n) == FDivInt(Frac(100 * Cardinality(hits), 1), n)
             Metrics(b) ==
                 LET hybrid == Hybrid_of(b, 1)
                     n == Len(hybrid)
                     pos == {k \in 1..n : ~FLeq(hybrid[k], Frac(5, 100))}
                     neg == {k \in 1..n : ~FLeq(Frac(-5, 100), hybrid[k])}
                 IN [brand |-> b,
                     mention_count |-> n,
                     avg_hybrid_score |-> FDivInt(FSum(hybrid), n),
                     positive_pct |-> Pct(pos, n),
                     negative_pct |-> Pct(neg, n),
                     neutral_pct |->
                         FSub(FSub(Frac(100, 1), Pct(pos, n)), Pct(neg, n))]
         IN [exc |-> "", value |-> [b \in brands |-> Metrics(b)]]

\* BrandComparisonAnalyzer.comparison_table(df, **kwargs): one row per brand
\* of compute(df), sorted by the rounded average, highest first; rows with
\* equal averages come in an order the sort does not fix, so the value is
\* the set of the tables the call can return
ComparisonTable(d, kwargs) ==
    IF kwargs # {} THEN [exc |-> "TypeError", value |-> {}]
    ELSE LET metrics == Compute(d, {}).value
             brands == DOMAIN metrics
             TableRow(b) ==
                 [brand |-> b,
                  mentions |-> metrics[b].mention_count,
                  avg_sentiment |-> Round4(metrics[b].avg_hybrid_score),
                  sentiment |-> SentimentLabel(metrics[b].avg_hybrid_score)]
             n == Cardinality(brands)
             orders == {f \in [1..n -> brands] :
                           /\ \A b \in brands : \E k \in 1..n : f[k] = b
                           /\ \A k \in 1..(n - 1) :
                                 FLeq(TableRow(f[k + 1]).avg_sentiment,
                                      TableRow(f[k]).avg_sentiment)}
         IN [exc |-> "",
             value |-> {[k \in 1..n |-> TableRow(f[k])] : f \in orders}]

\* the API's GET /brands?min_mentions=k on the annotated frame d: the frame
\* is loaded (503 when there is none), the table is asked for with the
\* keyword min_mentions, and its rows become the response
Brands(d, min_mentions) ==
    IF d = None THEN [exc |-> "HTTPException 503", value |-> {}]
    ELSE LET table == ComparisonTable(d[1], {"min_mentions"})
         IN IF table.exc # "" THEN [exc |-> table.exc, value |-> {}]
            ELSE [exc |-> "",
                  value |-> {[brands |-> t, total_brands |-> Len(t)] :
                                t \in table.value}]

\* the API's POST /analyze on the request text, where compound is what the
\* lexicon's polarity_scores returned for the stripped text
Analyze(req_text, compound) ==
    LET first == {i \in DOMAIN req_text : ~IsSpace(req_text[i])}
        text == IF first = {} THEN <<>>
                ELSE SubSeq(req_text, Min(first), Max(first))
    IN IF text = <<>> THEN [exc |-> "HTTPException 422", value |-> <<>>]
       ELSE [exc |-> "",
             value |-> [text |-> text,
                        brands |-> DetectBrands(text, context_window),
                        models |-> DetectModels(MODEL_CATALOG, text),
                        vader_score |-> Round4(compound),
                        sentiment_label |->
                            IF FLeq(Frac(5, 100), compound) THEN "Positive"
                            ELSE IF FLeq(compound, Frac(-5, 100)) THEN "Negative"
                            ELSE "Neutral"]]

\* ChannelDetector().detect(text, urls)
CallChannelDetect(text, urls) ==
    /\ op = "none"
    /\ op' = "channel_detect"
    /\ arg' = [text |-> text, urls |-> urls]
    /\ ret' = [exc |-> "", value |-> ChannelDetect(text, urls)]
    /\ UNCHANGED <<checkpoint, files, run, threads, heap, dvars, pvars, scorer>>

\* PurchaseIntentClassifier().classify(text)
CallClassify(text) ==
    /\ op = "none"
    /\ op' = "classify"
    /\ arg' = text
    /\ ret' = [exc |-> "", value |-> Classify(text)]
    /\ UNCHANGED <<checkpoint, files, run, threads, heap, dvars, pvars, scorer>>

\* POST /analyze
CallAnalyze(req_text, compound) ==
    /\ op = "none"
    /\ op' = "analyze"
    /\ arg' = [text |-> req_text, compound |-> compound]
    /\ ret' = Analyze(req_text, compound)
    /\ UNCHANGED <<checkpoint, files, run, threads, heap, dvars, pvars, scorer>>

\* BrandComparisonAnalyzer().compute(d), or compute(d, min_mentions=k) when
\* the keyword is given
CallCompute(d, kwargs) ==
    /\ op = "none"
    /\ op' = "compute"
    /\ arg' = [df |-> d, kwargs |-> kwargs]
    /\ ret' = Compute(d, DOMAIN kwargs)
    /\ UNCHANGED <<checkpoint, files, run, threads, heap, dvars, pvars, scorer>>

\* BrandComparisonAnalyzer().comparison_table(d), or with min_mentions=k
CallComparisonTable(d, kwargs) ==
    /\ op = "none"
    /\ op' = "comparison_table"
    /\ arg' = [df |-> d, kwargs |-> kwargs]
    /\ \E r \in {ComparisonTable(d, DOMAIN kwargs)} :
          IF r.exc # "" THEN ret' = [exc |-> r.exc, value |-> <<>>]
          ELSE \E t \in r.value : ret' = [exc |-> "", value |-> t]
    /\ UNCHANGED <<checkpoint, files, run, threads, heap, dvars, pvars, scorer>>

\* GET /brands?min_mentions=k
CallBrands(d, k) ==
    /\ op = "none"
    /\ op' = "brands"
    /\ arg' = [df |-> d, kwargs |-> [min_mentions |-> k]]
    /\ \E r \in {Brands(d, k)} :
          IF r.exc # "" THEN ret' = [exc |-> r.exc, value |-> <<>>]
          ELSE \E t \in r.value : ret' = [exc |-> "", value |-> t]
    /\ UNCHANGED <<checkpoint, files, run, threads, heap, dvars, pvars, scorer>>

CNext ==
    \/ NewAnalyzer
    \/ \E use \in BOOLEAN : NewPipeline(use)
    \/ \E text \in CallInputs.snippets : CallScore(text)
    \/ \E texts \in CallInputs.batches : CallScoreBatch(texts)
    \/ \E texts \in CallInputs.batches : CallVaderScoreBatch(texts)
    \/ \E text \in CallInputs.texts, urls \in CallInputs.urls :
          CallChannelDetect(text, urls)
    \/ \E text \in CallInputs.texts : CallClassify(text)
    \/ \E text \in CallInputs.requests, c \in CallInputs.compounds :
          CallAnalyze(text, c)
    \/ \E d \in CallInputs.frames :
          \/ CallCompute(d, <<>>)
          \/ CallComparisonTable(d, <<>>)
          \/ \E k \in CallInputs.min_mentions :
                \/ CallCompute(d, [min_mentions |-> k])
                \/ CallComparisonTable(d, [min_mentions |-> k])
                \/ CallBrands(Some(d), k)
    \/ \E k \in CallInputs.min_mentions : CallBrands(None, k)
    \/ \E limit \in CallInputs.limits, pages \in CallInputs.pages :
          CallFetchListing(limit, pages)

SpecComponents == CInit /\ [][CNext]_vars

(***************************************************************************)
(* Properties of the components (checked under SpecComponents).            *)
(***************************************************************************)
\* every snippet of the call that was just made is empty or whitespace only
BlankCall ==
    \/ op' = "score" /\ IsBlank(arg')
    \/ op' = "score_batch" /\ arg' # <<>> /\ \A i \in DOMAIN arg' : IsBlank(arg'[i])

\* C12: a snippet that is empty or whitespace only scores 0.0 and never has
\* the underlying model loaded or invoked, for score and for score_batch on a
\* batch of such snippets, also when the dependency is unavailable (no
\* ImportError is raised for such input).
C12_BlankNeverLoadsModel ==
    [][BlankCall =>
          /\ ret'.exc = ""
          /\ op' = "score" => ret'.value = Zero
          /\ op' = "score_batch" => ret'.value = [i \in DOMAIN arg' |-> Zero]
          /\ scorer' = scorer
          /\ ML_AVAILABLE' = ML_AVAILABLE]_vars

\* C13: constructing TransformerAnalyzer or SentimentPipeline never raises
\* and neither probes nor loads the dependency; with the dependency
\* unavailable the failure appears only when a scoring call needs the model,
\* as an ImportError.
C13_ConstructionIsLazy ==
    [][/\ op' \in {"TransformerAnalyzer", "SentimentPipeline"} =>
             /\ ret'.exc = ""
             /\ ML_AVAILABLE' = ML_AVAILABLE
             /\ op' = "TransformerAnalyzer" => scorer' = Some([pipeline_loaded |-> FALSE])
             /\ op' = "SentimentPipeline" => transformer' = None /\ scorer' = scorer
       /\ (op' \in StatefulOps /\ ret'.exc # "") =>
             /\ op' \in {"score", "score_batch"}
             /\ ret'.exc = "ImportError"
             /\ ~ml_installed
       /\ (op' = "score" /\ ~IsBlank(arg') /\ ~ml_installed) =>
             ret'.exc = "ImportError"]_vars

C13_Witness ==
    /\ ~ml_installed
    /\ op = "score" /\ arg = T_good
    /\ ret.exc = "ImportError"
    /\ scorer = Some([pipeline_loaded |-> FALSE])
    /\ transformer = None /\ use_transformer

\* C14: every label derivation maps a score to Positive / Neutral / Negative
\* with the same thresholds and the same treatment of the boundary values:
\* the label of POST /analyze for a score is the label
\* BrandMetrics.sentiment_label gives for that score, also at exactly +0.05
\* and -0.05.
C14_LabelsAgree ==
    (op = "analyze" /\ ret.exc = "") =>
        ret.value.sentiment_label = SentimentLabel(arg.compound)

\* C15: compute(df, min_mentions=k), comparison_table(df, min_mentions=k) and
\* GET /brands?min_mentions=k return exactly the brands mentioned in at least
\* k records, with k defaulting to 5.
C15_MinMentionsFilters ==
    (op \in {"compute", "comparison_table", "brands"} /\ arg.df # None) =>
        LET d == IF op = "brands" THEN arg.df[1] ELSE arg.df
            k == IF "min_mentions" \in DOMAIN arg.kwargs
                 THEN arg.kwargs.min_mentions ELSE 5
            Count(b) == Cardinality({i \in DOMAIN d : b \in Range(d[i].brands)})
            expected == {b \in UNION {Range(d[i].brands) : i \in DOMAIN d} :
                            Count(b) >= k}
            rows == IF op = "brands" THEN ret.value.brands ELSE ret.value
        IN /\ ret.exc = ""
           /\ IF op = "compute" THEN DOMAIN ret.value = expected
              ELSE {rows[j].brand : j \in DOMAIN rows} = expected

(***************************************************************************)
(* Further properties of the detectors (checked under SpecDetect).         *)
(***************************************************************************)
\* names holds each name of the mentions once, ordered by the start offset of
\* the name's first mention; name_of[k] is the canonical name of mention k
FirstOccurrenceOrder(names, ms, name_of) ==
    LET FirstStart(n) == Min({ms[k].start : k \in {j \in DOMAIN ms : name_of[j] = n}})
    IN /\ NoDuplicates(names)
       /\ Range(names) = Range(name_of)
       /\ \A a, b \in DOMAIN names :
             a < b => FirstStart(names[a]) <= FirstStart(names[b])

\* C16: for all texts, detect_brands and detect_models return each canonical
\* name at most once, ordered by the start offset of the name's first mention.
C16_NamesOnceInFirstMentionOrder ==
    /\ dop = "detect_brands" =>
          LET ms == BrandDetect(dtext, cfg.context_window)
          IN FirstOccurrenceOrder(dnames, ms, [k \in DOMAIN ms |-> ms[k].brand])
    /\ dop = "detect_models" =>
          LET ms == ModelDetect(catalog, dtext)
          IN FirstOccurrenceOrder(dnames, ms, [k \in DOMAIN ms |-> ms[k].model])

C16_Witness ==
    /\ dop = "detect_brands"
    /\ dnames = <<"New Balance", "Under Armour">>
    /\ Len(BrandDetect(dtext, cfg.context_window)) = 3

MatchedCategories(text) ==
    {c \in DOMAIN INTENT_PATTERNS :
        \E words \in Range(INTENT_PATTERNS[c]) :
            \E i \in 0..Len(text) : PhraseMatchAt(text, words, i)}

\* the place of a category in the fixed priority order: 1 is the highest
PriorityRank(c) ==
    CHOOSE k \in 1..7 :
        << "completed_purchase", "marketplace", "selling", "seeking_purchase",
           "purchase_consideration", "availability_info", "price_discussion" >>[k] = c

\* C18: primary_intent is None exactly when no category matched (all_intents
\* is empty); otherwise it is all_intents[0] and the matched category of the
\* highest fixed priority, wherever in the text the phrases occur.
C18_PrimaryIsHighestPriority ==
    op = "classify" =>
        LET r == ret.value
            matched == MatchedCategories(arg)
        IN /\ r.primary_intent = None <=> r.all_intents = <<>>
           /\ r.primary_intent = None <=> matched = {}
           /\ matched # {} =>
                 /\ r.primary_intent = Some(r.all_intents[1])
                 /\ r.primary_intent[1] \in matched
                 /\ \A c \in matched :
                       PriorityRank(r.primary_intent[1]) <= PriorityRank(c)

C18_Witness ==
    /\ op = "classify"
    /\ arg = <<"W","T","S"," ","c","o","p","p","e","d">>
    /\ ret.value.primary_intent = Some("completed_purchase")
    /\ ret.value.all_intents = <<"completed_purchase", "marketplace">>

\* C19: all_intents holds exactly the registered categories with at least one
\* pattern match, each once, in the fixed priority order, and
\* matched_patterns has exactly those categories as keys, each with a
\* non-empty list of the matched substrings.
C19_AllMatchedCategories ==
    op = "classify" =>
        LET r == ret.value
            all == r.all_intents
            mp == r.matched_patterns
        IN /\ Range(all) = MatchedCategories(arg)
           /\ \A a, b \in DOMAIN all :
                 a < b => PriorityRank(all[a]) < PriorityRank(all[b])
           /\ {mp[k].intent : k \in DOMAIN mp} = Range(all)
           /\ \A j, k \in DOMAIN mp : mp[j].intent = mp[k].intent => j = k
           /\ \A k \in DOMAIN mp :
                 /\ mp[k].snippets # <<>>
                 /\ \A s \in Range(mp[k].snippets) :
                       \E words \in Range(INTENT_PATTERNS[mp[k].intent]) :
                           \E i \in 0..Len(arg) :
                               /\ PhraseMatchAt(arg, words, i)
                               /\ s = Slice(arg, i, PhraseEnd(arg, words, i))

C19_Witness ==
    /\ op = "classify"
    /\ arg = <<"f","o","r"," "," ","s","a","l","e">>
    /\ ret.value.all_intents = <<"marketplace", "selling">>
    /\ Len(ret.value.matched_patterns) = 2
    /\ ret.value.matched_patterns[2].snippets = <<arg>>

\* C20: detect(text, urls) returns the channels of the URLs first, in URL
\* list order, then the channels of the text in match order, each channel
\* once: a channel signalled by a URL and by the text stands once, at its
\* URL position.
C20_UrlChannelsThenTextChannels ==
    op = "channel_detect" =>
        LET of_urls == Flatten([k \in DOMAIN arg.urls |->
                                   DomainChannel(DomainFromUrl(arg.urls[k]))])
            groups == KeywordFindIter(arg.text, 0)
            of_text == Flatten([k \in DOMAIN groups |-> KeywordChannel(groups[k])])
        IN /\ ret.exc = ""
           /\ ret.value = Dedup(of_urls \o of_text)
           /\ NoDuplicates(ret.value)

C20_Witness ==
    /\ op = "channel_detect"
    /\ Len(arg.urls) = 2
    /\ arg.text = <<"s","t","o","c","k","x"," ","G","o","a","t">>
    /\ ret.value = <<"Nike Direct", "GOAT", "StockX">>

(***************************************************************************)
(* Batch scoring, checked under SpecComponents.                            *)
(***************************************************************************)
\* C21: score_batch of the lexicon scorer and of the contextual scorer returns
\* a list as long as its input whose position i holds the score of input i;
\* in a batch of the contextual scorer that mixes blank and non-blank snippets
\* the blank ones score 0.0 and no score is moved to another position
C21_BatchScoresStayInPlace ==
    /\ (op = "vader_score_batch") =>
          /\ Len(ret.value) = Len(arg)
          /\ \A i \in DOMAIN arg : ret.value[i] = VaderScore(arg[i])
    /\ (op = "score_batch" /\ ret.exc = "") =>
          /\ Len(ret.value) = Len(arg)
          /\ \A i \in DOMAIN arg :
                ret.value[i] = IF IsBlank(arg[i]) THEN Zero
                               ELSE LabelsToScore(HFPipeline(arg[i]))

\* a batch whose first snippet is blank and whose second is not was scored
C21_Witness ==
    /\ op = "score_batch"
    /\ ret.exc = ""
    /\ Len(arg) = 2
    /\ IsBlank(arg[1])
    /\ ~IsBlank(arg[2])
    /\ ret.value[2] # Zero

(***************************************************************************)
(* The range of the hybrid score, checked under Spec.                      *)
(***************************************************************************)
InUnitRange(x) == FLeq(Frac(-1, 1), x) /\ FLeq(x, Frac(1, 1))

\* C22: every annotation's hybrid score lies in [-1, 1], the lexicon score and
\* every window score lying in [-1, 1], for every batch and every number of
\* brand windows per text
C22_HybridInUnitRange ==
    Returned =>
        \A i \in DOMAIN out :
            (/\ InUnitRange(out[i].vader_score)
             /\ \A k \in DOMAIN Windows(i) :
                   InUnitRange(LabelsToScore(HFPipeline(Windows(i)[k]))))
            => InUnitRange(out[i].hybrid_score)

\* the weights are non-negative and sum to at most 1, as the defaults do
ConvexWeights(c) ==
    /\ FLeq(Zero, c.transformer_weight)
    /\ FLeq(Zero, c.vader_weight)
    /\ FLeq(FAdd(c.transformer_weight, c.vader_weight), Frac(1, 1))

\* C22, amended: the hybrid score lies in [-1, 1] under the same condition on
\* the scores whenever the configured weights are non-negative and sum to at
\* most 1
C22_HybridInUnitRangeForConvexWeights == ConvexWeights(cfg) => C22_HybridInUnitRange

\* a row with a contextual score was blended under the default weights
C22_Witness ==
    /\ Returned
    /\ raised = ""
    /\ cfg = DefaultConfig
    /\ \E i \in DOMAIN out :
          /\ out[i].transformer_score # None
          /\ out[i].hybrid_score # out[i].vader_score
          /\ out[i].hybrid_score # Zero

(***************************************************************************)
(* Empty and absent input, checked under Spec.                             *)
(***************************************************************************)
\* the text of row i is absent or empty and it has no URL list or an empty one
EmptyRecord(i) ==
    /\ df.rows[i].full_text \in {None, Some(<<>>)}
    /\ \/ "extracted_urls" \notin df.columns
       \/ df.rows[i].extracted_urls.kind = "none"
       \/ df.rows[i].extracted_urls = ListOf(<<>>)

\* what the empty string with no URLs is annotated with
EmptyAnnotation ==
    [vader_score |-> Zero, transformer_score |-> None, hybrid_score |-> Zero,
     brands |-> <<>>, models |-> <<>>, channels |-> <<>>,
     primary_intent |-> None, all_intents |-> <<>>]

\* C23: empty or absent input yields empty results and no error: a record whose
\* text is absent or empty and whose URL list is absent is annotated like the
\* empty string with no URLs (lexicon 0.0, hybrid 0.0, no contextual score,
\* empty brand, model and channel lists, no primary intent, no intents), and
\* every detector called on the empty string returns its empty result
C23_EmptyInputEmptyResult ==
    /\ Returned =>
          /\ raised = ""
          /\ \A i \in DOMAIN df.rows :
                EmptyRecord(i) =>
                    \A col \in DOMAIN EmptyAnnotation : out[i][col] = EmptyAnnotation[col]
    /\ BrandDetect(<<>>, cfg.context_window) = <<>>
    /\ DetectBrands(<<>>, cfg.context_window) = <<>>
    /\ ModelDetect(MODEL_CATALOG, <<>>) = <<>>
    /\ DetectModels(MODEL_CATALOG, <<>>) = <<>>
    /\ ChannelDetect(<<>>, <<>>) = <<>>
    /\ DetectFromText(<<>>) = <<>>
    /\ DetectFromUrls(<<>>) = <<>>
    /\ Classify(<<>>).primary_intent = None
    /\ Classify(<<>>).all_intents = <<>>
    /\ VaderScore(<<>>) = Zero

\* a batch was annotated whose first record has an empty text and a None URL
\* cell, beside a record that mentions a brand and got a contextual score
C23_Witness ==
    /\ Returned
    /\ Len(df.rows) = 2
    /\ df.rows[1].full_text = Some(<<>>)
    /\ df.rows[1].extracted_urls.kind = "none"
    /\ out[2].brands # <<>>
    /\ out[2].transformer_score # None
    /\ out[1].transformer_score = None

(***************************************************************************)
(* Word boundaries, checked under SpecDetect.                              *)
(***************************************************************************)
\* C24: an alias never matches inside a longer word: every reported mention
\* is an occurrence that is neither immediately preceded nor immediately
\* followed by a letter, a digit or an underscore
C24_NoMatchInsideLongerWord ==
    dop \in {"brand_detect", "model_detect"} =>
        \A k \in DOMAIN dmentions :
            /\ dmentions[k].start = 0 \/ ~IsWordChar(dtext[dmentions[k].start])
            /\ dmentions[k].end = Len(dtext) \/ ~IsWordChar(dtext[dmentions[k].end + 1])

(***************************************************************************)
(* The word a mention begins in, checked under SpecDetect.                 *)
(***************************************************************************)
\* the 1-based index of the whitespace-delimited word that contains the
\* character at offset p (0-based) of the text: the words begun up to there
WordIndexAt(text, p) ==
    Cardinality({i \in 1..(p + 1) : ~IsSpace(text[i]) /\ (i = 1 \/ IsSpace(text[i - 1]))})

\* C26: for every brand mention the word index computed by the context
\* extraction is the index of the whitespace-delimited word that contains the
\* first character of the match, leading whitespace and runs of whitespace
\* included, so the window is centred on the mention: the words before and
\* after are those around the word in which the match begins
C26_WindowCentredOnMention ==
    dop = "brand_detect" =>
        \A k \in DOMAIN dmentions :
            LET words == Split(dtext)
                i == WordIndexAt(dtext, dmentions[k].start)
                w == cfg.context_window
            IN /\ MatchWordIdx(words, 1, 0, dmentions[k].start) = i
               /\ dmentions[k].context_words_before = Slice(words, Max({0, i - 1 - w}), i - 1)
               /\ dmentions[k].context_words_after = Slice(words, i, Min({Len(words), i + w}))

(***************************************************************************)
(* The frame annotate is given and the frame it returns, checked under     *)
(* Spec.                                                                   *)
(***************************************************************************)
AnnotationColumns ==
    {"vader_score", "transformer_score", "hybrid_score", "brands", "models",
     "channels", "primary_intent", "all_intents"}

\* C28: annotate leaves the caller's records unchanged (no column is added to
\* or altered in the frame passed in), and the returned records keep every
\* input column with its original value, adding only the score, brand, model,
\* channel and intent columns
C28_InputKeptAndOnlyColumnsAdded ==
    (Returned /\ raised = "") =>
        /\ df \in DataFrames
        /\ \A i \in DOMAIN df.rows :
              /\ DOMAIN df.rows[i] = df.columns
              /\ DOMAIN out[i] = df.columns \cup AnnotationColumns
              /\ \A col \in df.columns : out[i][col] = df.rows[i][col]

(***************************************************************************)
(* The public collector's listing, checked under SpecComponents.           *)
(***************************************************************************)
\* C30: _fetch_listing returns at most `limit` post records, for every limit
\* and every sequence of pages the server returns: pages of any size, with or
\* without stickied posts, with or without an `after` token
C30_AtMostLimitRecords ==
    op = "_fetch_listing" => Len(ret.value.records) <= arg.limit

(***************************************************************************)
(* SubredditCollector.collect (collection/collector.py).  The records of a *)
(* run live in memory until the Parquet file is written; the checkpoint    *)
(* file is rewritten after every subreddit.  A run can be interrupted      *)
(* (KeyboardInterrupt, a killed process, a failing to_parquet): its local  *)
(* variables are lost, the files stay as they are.                         *)
(***************************************************************************)
\* CollectionConfig.subreddits (the first three of the default list)
Subreddits == <<"Sneakers", "SneakerMarket", "Nike">>

\* a checkpoint file that is never read
LoadCheckpoint_Ignored(file) == {}

\* SubredditCollector._load_checkpoint: the subreddits the file marks
\* completed, none when there is no file
LoadCheckpoint(file) == IF file = None THEN {} ELSE file[1]

\* collect() up to the loop: `completed = self._load_checkpoint()`
StartCollect ==
    /\ run.pc = "idle"
    /\ run.started < MaxRuns
    /\ \E completed \in {LoadCheckpoint(checkpoint)} :
          run' = [pc |-> "loop", started |-> run.started + 1, at_start |-> checkpoint,
                  completed |-> completed, all_records |-> <<>>, i |-> 1,
                  asked |-> <<>>]
    /\ UNCHANGED <<dvars, pvars, cvars, checkpoint, files, threads, heap>>

\* one iteration of `for sub_name in self._cfg.subreddits`: a subreddit marked
\* completed is skipped; otherwise the client is asked for it and either its
\* records are kept, it is marked and the checkpoint is saved, or the
\* exception of the fetch is printed and nothing changes
VisitSubreddit ==
    /\ run.pc = "loop"
    /\ run.i <= Len(Subreddits)
    /\ LET sub_name == Subreddits[run.i]
       IN \/ /\ sub_name \in run.completed
             /\ run' = [run EXCEPT !.i = @ + 1]
             /\ UNCHANGED checkpoint
          \/ /\ sub_name \notin run.completed
             /\ run' = [run EXCEPT !.i = @ + 1,
                                   !.asked = Append(@, sub_name),
                                   !.all_records = Append(@, [subreddit |-> sub_name]),
                                   !.completed = @ \cup {sub_name}]
             /\ checkpoint' = Some(run.completed \cup {sub_name})
          \/ /\ sub_name \notin run.completed
             /\ run' = [run EXCEPT !.i = @ + 1, !.asked = Append(@, sub_name)]
             /\ UNCHANGED checkpoint
    /\ UNCHANGED <<dvars, pvars, cvars, files, threads, heap>>

\* `df.to_parquet(output_path)` after the loop
WriteParquet ==
    /\ run.pc = "loop"
    /\ run.i > Len(Subreddits)
    /\ files' = Append(files, run.all_records)
    /\ run' = [run EXCEPT !.pc = "saved"]
    /\ UNCHANGED <<dvars, pvars, cvars, checkpoint, threads, heap>>

\* `self._checkpoint_path.unlink()` if the file exists, and the return
ClearCheckpoint ==
    /\ run.pc = "saved"
    /\ checkpoint' = None
    /\ run' = [run EXCEPT !.pc = "idle"]
    /\ UNCHANGED <<dvars, pvars, cvars, files, threads, heap>>

\* the run is interrupted: its records in memory are gone
Interrupt ==
    /\ run.pc \in {"loop", "saved"}
    /\ run' = [run EXCEPT !.pc = "idle", !.all_records = <<>>]
    /\ UNCHANGED <<dvars, pvars, cvars, checkpoint, files, threads, heap>>

KNext == StartCollect \/ VisitSubreddit \/ WriteParquet \/ ClearCheckpoint \/ Interrupt

\* a process in which nothing has been called: no checkpoint, no output file
SpecCollect == CInit /\ [][KNext]_vars

(***************************************************************************)
(* Properties of the collector, checked under SpecCollect.                 *)
(***************************************************************************)
\* the subreddits checkpoint.json marked completed when the call started
\* (run.at_start is the file as it was then)
MarkedAtStart == IF run.at_start = None THEN {} ELSE run.at_start[1]

\* C25: collect never fetches a subreddit that the checkpoint file marks
\* completed when the call starts: the client is not asked for it and the
\* run contributes no record of it
C25_CompletedNeverFetched ==
    \A sub_name \in MarkedAtStart :
        /\ \A k \in DOMAIN run.asked : run.asked[k] # sub_name
        /\ \A k \in DOMAIN run.all_records : run.all_records[k].subreddit # sub_name

\* a run that found "Sneakers" marked completed went through the whole list
\* and fetched another subreddit
C25_Witness ==
    /\ run.pc = "saved"
    /\ "Sneakers" \in MarkedAtStart
    /\ run.asked # <<>>
    /\ run.all_records # <<>>

\* the records of the subreddit are in one of the saved files
Saved(sub_name) ==
    \E f \in DOMAIN files : \E k \in DOMAIN files[f] : files[f][k].subreddit = sub_name

\* C29: checkpointing loses no data across an interruption: when a run that
\* followed an interrupted one has written its Parquet file, the records of
\* every subreddit marked completed are in a saved output file
C29_NoDataLostAcrossInterruption ==
    run.pc = "saved" => \A sub_name \in run.completed : Saved(sub_name)

(***************************************************************************)
(* Concurrent callers of annotate on one SentimentPipeline.  The state the *)
(* callers share is the attribute self._transformer (here: None, or a      *)
(* reference into heap), the attribute _pipeline of each TransformerAnalyzer*)
(* (heap[ref].pipeline_loaded) and the module flag _ML_AVAILABLE.  Every   *)
(* read and every write of one of them is a step of its own; everything    *)
(* else in annotate works on local values.  The classifier itself is a     *)
(* function of the snippet.                                                *)
(***************************************************************************)
\* the pipeline is constructed with its scorer enabled; nobody is inside
TInit ==
    /\ DIdle /\ PInit /\ CIdle /\ KIdle
    /\ cfg = DefaultConfig
    /\ use_transformer = TRUE

\* thread t calls annotate(d), having taken the result of its previous call:
\* steps 1 and 2, the guard of step 3 and the test
\* `if self._transformer is None` of _get_transformer
TBegin(t, d) ==
    /\ threads[t].pc \in {"idle", "done"}
    /\ threads' = [threads EXCEPT ![t] =
          [pc |-> IF ~ScorerWanted(use_transformer, ContextsOf(d, cfg)) THEN "finish"
                  ELSE IF transformer = None THEN "make" ELSE "return",
           df |-> d, ref |-> 0, available |-> FALSE]]
    /\ UNCHANGED <<dvars, pvars, cvars, checkpoint, files, run, heap>>

\* `self._transformer = TransformerAnalyzer()`
TMake(t) ==
    /\ threads[t].pc = "make"
    /\ heap' = Append(heap, NewTransformerAnalyzer)
    /\ transformer' = Some(Len(heap) + 1)
    /\ threads' = [threads EXCEPT ![t].pc = "return"]
    /\ UNCHANGED <<dvars, cvars, checkpoint, files, run, cfg, use_transformer,
                   ml_installed, ML_AVAILABLE, pc, df, out, calls, raised>>

\* `return self._transformer`: the caller gets the object the attribute
\* refers to now
TReturnRef(t) ==
    /\ threads[t].pc = "return"
    /\ threads' = [threads EXCEPT ![t].pc = "load", ![t].ref = transformer[1]]
    /\ UNCHANGED <<dvars, pvars, cvars, checkpoint, files, run, heap>>

\* score_batch on a non-empty list: _load tests `self._pipeline is not None`
TLoad(t) ==
    /\ threads[t].pc = "load"
    /\ threads' = [threads EXCEPT ![t].pc =
          IF heap[threads[t].ref].pipeline_loaded THEN "score" ELSE "check",
                                  ![t].available = heap[threads[t].ref].pipeline_loaded]
    /\ UNCHANGED <<dvars, pvars, cvars, checkpoint, files, run, heap>>

\* _check_ml reads _ML_AVAILABLE: at its entry, and again for its return
\* value; False raises the ImportError that annotate catches
TCheckMl(t) ==
    /\ threads[t].pc \in {"check", "checked"}
    /\ threads[t].pc = "checked" => ML_AVAILABLE # None
    /\ threads' = [threads EXCEPT ![t].pc =
          IF ML_AVAILABLE = None THEN "import"
          ELSE IF ML_AVAILABLE[1] THEN "build" ELSE "finish"]
    /\ UNCHANGED <<dvars, pvars, cvars, checkpoint, files, run, heap>>

\* a probe that caches a failure whatever the import did
TImport_CachesFailure(t) ==
    /\ threads[t].pc = "import"
    /\ ML_AVAILABLE' = Some(FALSE)
    /\ threads' = [threads EXCEPT ![t].pc = "checked"]
    /\ UNCHANGED <<dvars, cvars, checkpoint, files, run, heap, cfg, use_transformer,
                   ml_installed, transformer, pc, df, out, calls, raised>>

\* the import is attempted and its outcome is written to _ML_AVAILABLE
TImport(t) ==
    /\ threads[t].pc = "import"
    /\ ML_AVAILABLE' = Some(ml_installed)
    /\ threads' = [threads EXCEPT ![t].pc = "checked"]
    /\ UNCHANGED <<dvars, cvars, checkpoint, files, run, heap, cfg, use_transformer,
                   ml_installed, transformer, pc, df, out, calls, raised>>

\* `self._pipeline = pipeline(...)`
TBuild(t) ==
    /\ threads[t].pc = "build"
    /\ heap' = [heap EXCEPT ![threads[t].ref].pipeline_loaded = TRUE]
    /\ threads' = [threads EXCEPT ![t].pc = "score", ![t].available = TRUE]
    /\ UNCHANGED <<dvars, pvars, cvars, checkpoint, files, run>>

\* the contexts are scored (by the classifier, or by the lexicon scorer after
\* an ImportError), the rows are assembled and annotate returns
TFinish(t) ==
    /\ threads[t].pc \in {"score", "finish"}
    /\ LET d == threads[t].df
           available == threads[t].pc = "score"
           brand_contexts == ContextsOf(d, cfg)
           scores == IF ~ScorerWanted(use_transformer, brand_contexts) THEN <<>>
                     ELSE IF available THEN TransformerScores(brand_contexts)
                     ELSE VaderScoreBatch(brand_contexts)
       IN \E rows \in AnnotateRows(d, cfg, scores, available) :
             threads' = [threads EXCEPT ![t] =
                 [pc |-> "done", df |-> d, ref |-> threads[t].ref,
                  available |-> available, out |-> rows]]
    /\ UNCHANGED <<dvars, pvars, cvars, checkpoint, files, run, heap>>

TNext ==
    \E t \in 1..MaxThreads :
        \/ \E d \in {f \in DataFrames : /\ Len(f.rows) = 1
                                        /\ f.rows[1].id \in {"p2", "p3", "p4"}
                                        /\ "extracted_urls" \in f.columns
                                        /\ "vader_score" \notin f.columns} :
              TBegin(t, d)
        \/ TMake(t)
        \/ TReturnRef(t)
        \/ TLoad(t)
        \/ TCheckMl(t)
        \/ TImport(t)
        \/ TBuild(t)
        \/ TFinish(t)

SpecConcurrent == TInit /\ [][TNext]_vars

(***************************************************************************)
(* Properties of concurrent callers, checked under SpecConcurrent.         *)
(***************************************************************************)
\* C27: for any interleaving of concurrent annotate calls on one pipeline,
\* calls that overlap during the lazy initialisation of the scorer and of its
\* availability flag included, and after any earlier calls, each call returns
\* annotations that the same call returns when it runs alone on a freshly
\* constructed pipeline
C27_CallsAreIsolated ==
    \A t \in 1..MaxThreads :
        threads[t].pc = "done" =>
            LET alone == AnnotateRun(threads[t].df, cfg, use_transformer, None, None,
                                     ml_installed)
            IN alone.exc = "" /\ threads[t].out \in alone.results

\* both callers found self._transformer empty and built an analyzer each, the
\* second overwriting the first; both have returned rows with a contextual
\* score
C27_Witness ==
    /\ Len(heap) = 2
    /\ \A t \in 1..MaxThreads :
          /\ threads[t].pc = "done"
          /\ threads[t].out[1].transformer_score # None

====
